---- MODULE Spec2Model ----
(***************************************************************************)
(* A model of the image pipeline of mcp_process_image: the tools           *)
(* process_image, extract_text, detect_objects and analyze_image_batch and *)
(* the supported-apis resource (server.py), the source loader and          *)
(* normalizer (utils.py), the provider client (api_clients/base.py,        *)
(* api_clients/openai_client.py) and the credential lookup (config.py).    *)
(*                                                                         *)
(* Conventions.  An Optional value is a sequence of length 0 (None) or 1.  *)
(* A message (str(e)) is a sequence of string tokens, so that a prefix     *)
(* put in front of a message is visible.  Confidences are in tenths.       *)
(* The ctx argument of the tools is None (no progress reporting).          *)
(***************************************************************************)
EXTENDS Integers, Sequences, FiniteSets, TLC

VARIABLES
    config,      \* server.config, the ServerConfig loaded at import
    req,         \* the arguments of the tool call in progress
    pc,          \* position of the tool call
    provider,    \* local `provider` of the tool (Optional)
    analysis,    \* local `analysis` of the tool (Optional AnalysisType)
    api_key,     \* local `effective_api_key` (Optional)
    client,      \* local `client` (Optional OpenAIImageClient)
    i,           \* batch: index of the item being handled (1-based)
    results,     \* batch: local `results`
    successful,  \* batch: local `successful`
    failed,      \* batch: local `failed`
    image,       \* the normalized bitmap of the current item (Optional)
    metadata,    \* the metadata dict of the current item (Optional)
    plan,        \* analyze_image: the kinds still to be requested
    partial,     \* analyze_image: the ImageAnalysis being filled
    kind,        \* the kind of the provider call in progress
    attempts,    \* _make_api_call: outcome of each remote attempt so far
    callres,     \* _make_api_call: what the call returned or raised
    output,      \* what the tool returned or raised (Optional)
    hist         \* history: what was done for each item, in order

vars == <<config, req, pc, provider, analysis, api_key, client, i, results,
          successful, failed, image, metadata, plan, partial, kind, attempts,
          callres, output, hist>>

---------------------------------------------------------------------------
(* Bounds of the model *)

MaxBatch == 2

OtherMaxRetries == 5

(* Program constants *)

MaxAttempts == 3

MaxDimension == 2048

ProviderMaxMB == 20

ConfigMaxMB == 10

MB == 1048576

---------------------------------------------------------------------------
(* Optional values and Python truthiness *)

None == << >>

Some(x) == << x >>

Truthy(o) == o # None /\ o[1] # ""

OrElse(o, d) == IF Truthy(o) THEN o[1] ELSE d

Ok(v) == [ok |-> TRUE, val |-> v, err |-> << >>]

Raise(type, msg) == [ok |-> FALSE, val |-> type, err |-> msg]

---------------------------------------------------------------------------
(* models.py *)

APIProviderValues == {"openai", "anthropic", "google", "azure"}

AnalysisTypeValues ==
    {"description", "objects", "text", "comprehensive",
     "ui_analysis", "accessibility_check", "design_review", "ux_issues"}

APIProvider(v) ==
    IF v \in APIProviderValues THEN Ok(v)
    ELSE Raise("ValueError", <<"'", v, "' is not a valid APIProvider">>)

AnalysisType(v) ==
    IF v \in AnalysisTypeValues THEN Ok(v)
    ELSE Raise("ValueError", <<"'", v, "' is not a valid AnalysisType">>)

(* item is not a field of the program's ProcessingResult: it records for   *)
(* which source, at which position of the input, the envelope was made.   *)
ProcessingResult(success, prov, an, error, item) ==
    [success |-> success, provider |-> prov, analysis |-> an, error |-> error,
     item |-> item]

BatchProcessingResult(total, succ, fail, res) ==
    [tool |-> "analyze_image_batch", raised |-> FALSE, total_images |-> total,
     successful |-> succ, failed |-> fail, results |-> res]

ImageAnalysis == [description |-> None, objects |-> << >>, text |-> << >>]

(* DetectedObject and ExtractedText: confidence is Field(ge=0.0, le=1.0),  *)
(* so the constructor raises pydantic's ValidationError outside [0, 1]     *)
(* (confidences are in tenths)                                             *)

DetectedObject_Clamps(name, confidence) ==
    Ok([name |-> name,
        confidence |-> IF confidence > 10 THEN 10
                       ELSE IF confidence < 0 THEN 0 ELSE confidence])

DetectedObject(name, confidence) ==
    IF confidence >= 0 /\ confidence <= 10
    THEN Ok([name |-> name, confidence |-> confidence])
    ELSE Raise("ValidationError",
               <<"1 validation error for DetectedObject", "confidence">>)

ExtractedText(content, confidence) ==
    IF confidence >= 0 /\ confidence <= 10
    THEN Ok([content |-> content, confidence |-> confidence])
    ELSE Raise("ValidationError",
               <<"1 validation error for ExtractedText", "confidence">>)

---------------------------------------------------------------------------
(* config.py *)

get_api_key_IgnoresProvider(prov, cfg, override_key) ==
    IF Truthy(override_key) THEN override_key ELSE cfg.openai_api_key

get_api_key(prov, cfg, override_key) ==
    IF Truthy(override_key) THEN override_key
    ELSE CASE prov = "openai" -> cfg.openai_api_key
           [] prov = "anthropic" -> cfg.anthropic_api_key
           [] prov = "google" -> cfg.google_credentials_path
           [] prov = "azure" -> cfg.azure_api_key
           [] OTHER -> None

(* str.strip of a key of the model: a key is blank, or has no whitespace   *)
(* around it                                                               *)
BlankKeys == {"", " "}

strip(key) == IF key \in BlankKeys THEN "" ELSE key

validate_api_key(prov, key) ==
    IF ~Truthy(key) THEN FALSE ELSE strip(key[1]) # ""

APIProviderMembers == <<"openai", "anthropic", "google", "azure">>

get_supported_providers(cfg) ==
    LET Valid(p) == validate_api_key(p, get_api_key(p, cfg, None))
    IN  SelectSeq(APIProviderMembers, Valid)

---------------------------------------------------------------------------
(* The image sources of the model: what each source string refers to.      *)
(* load is what the Source Resolver finds; the other fields describe the   *)
(* bytes it returns: their length, what the codec reports when it opens    *)
(* them (pil_format None: no format tag), their first bytes, and the       *)
(* decoded bitmap.                                                         *)

Sources == {"/img/ok.png", "/img/missing.png", "/img/small.bmp",
            "/img/scan.tiff", "/img/huge.jpg"}

SourceInfo(s) ==
    CASE s = "/img/ok.png" ->
           [load |-> "ok", size_bytes |-> 5000, decodable |-> TRUE,
            pil_format |-> Some("PNG"), magic |-> "PNG", width |-> 100,
            height |-> 80, mode |-> "RGB"]
      [] s = "/img/missing.png" ->
           [load |-> "not_found", size_bytes |-> 0, decodable |-> FALSE,
            pil_format |-> None, magic |-> "", width |-> 0, height |-> 0,
            mode |-> ""]
      [] s = "/img/small.bmp" ->
           [load |-> "ok", size_bytes |-> 24054, decodable |-> TRUE,
            pil_format |-> Some("BMP"), magic |-> "BM", width |-> 100,
            height |-> 80, mode |-> "RGB"]
      [] s = "/img/scan.tiff" ->
           [load |-> "ok", size_bytes |-> 5 * MB, decodable |-> TRUE,
            pil_format |-> Some("TIFF"), magic |-> "II", width |-> 4096,
            height |-> 2048, mode |-> "RGB"]
      [] s = "/img/huge.jpg" ->
           [load |-> "ok", size_bytes |-> 11 * MB, decodable |-> TRUE,
            pil_format |-> Some("JPEG"), magic |-> "JPEG", width |-> 1000,
            height |-> 800, mode |-> "RGB"]

---------------------------------------------------------------------------
(* utils.py *)

(* A source string is a sequence of characters (one-character strings).   *)
(* Text(s) is the text of a source name of Sources.                        *)

Text(s) ==
    CASE s = "/img/ok.png" ->
           <<"/", "i", "m", "g", "/", "o", "k", ".", "p", "n", "g">>
      [] s = "/img/missing.png" ->
           <<"/", "i", "m", "g", "/", "m", "i", "s", "s", "i", "n", "g", ".",
             "p", "n", "g">>
      [] s = "/img/small.bmp" ->
           <<"/", "i", "m", "g", "/", "s", "m", "a", "l", "l", ".", "b", "m",
             "p">>
      [] s = "/img/scan.tiff" ->
           <<"/", "i", "m", "g", "/", "s", "c", "a", "n", ".", "t", "i", "f",
             "f">>
      [] s = "/img/huge.jpg" ->
           <<"/", "i", "m", "g", "/", "h", "u", "g", "e", ".", "j", "p", "g">>

Lower ==
    {"a", "b", "c", "d", "e", "f", "g", "h", "i", "j", "k", "l", "m", "n",
     "o", "p", "q", "r", "s", "t", "u", "v", "w", "x", "y", "z"}

Upper ==
    {"A", "B", "C", "D", "E", "F", "G", "H", "I", "J", "K", "L", "M", "N",
     "O", "P", "Q", "R", "S", "T", "U", "V", "W", "X", "Y", "Z"}

Digits == {"0", "1", "2", "3", "4", "5", "6", "7", "8", "9"}

(* str.startswith, str.find (0: not found, else the 1-based index), the    *)
(* `in` of two strings, str.split(sep) and sep.join                        *)

StartsWith(s, prefix) ==
    Len(s) >= Len(prefix) /\ SubSeq(s, 1, Len(prefix)) = prefix

Find(s, c) ==
    IF \E k \in 1..Len(s) : s[k] = c
    THEN CHOOSE k \in 1..Len(s) : s[k] = c /\ \A j \in 1..(k - 1) : s[j] # c
    ELSE 0

Contains(s, sub) ==
    \E k \in 0..(Len(s) - Len(sub)) : SubSeq(s, k + 1, k + Len(sub)) = sub

RECURSIVE Split(_, _)
Split(s, sep) ==
    LET k == Find(s, sep) IN
    IF k = 0 THEN <<s>>
    ELSE <<SubSeq(s, 1, k - 1)>> \o Split(SubSeq(s, k + 1, Len(s)), sep)

RECURSIVE Join(_, _)
Join(parts, sep) ==
    IF parts = << >> THEN << >>
    ELSE IF Len(parts) = 1 THEN parts[1]
    ELSE parts[1] \o <<sep>> \o Join(Tail(parts), sep)

(* urllib.parse.urlparse: the scheme and the netloc of a string without    *)
(* whitespace or control characters.  The scheme is not lower-cased here:  *)
(* only its emptiness is used.                                             *)

SchemeChars == Lower \cup Upper \cup Digits \cup {"+", "-", "."}

UrlScheme(s) ==
    LET k == Find(s, ":") IN
    IF /\ k >= 2
       /\ s[1] \in Lower \cup Upper
       /\ \A j \in 1..(k - 1) : s[j] \in SchemeChars
    THEN SubSeq(s, 1, k - 1)
    ELSE << >>

UrlAfterScheme(s) ==
    IF UrlScheme(s) = << >> THEN s
    ELSE SubSeq(s, Len(UrlScheme(s)) + 2, Len(s))

UrlNetloc(s) ==
    LET rest == UrlAfterScheme(s)
        ends == {k \in 3..Len(rest) : rest[k] \in {"/", "?", "#"}}
        stop == IF ends = {} THEN Len(rest) + 1
                ELSE CHOOSE k \in ends : \A j \in ends : k <= j
    IN  IF StartsWith(rest, <<"/", "/">>) THEN SubSeq(rest, 3, stop - 1)
        ELSE << >>

urlparse(s) ==
    LET netloc == UrlNetloc(s)
        open == Find(netloc, "[") # 0
        close == Find(netloc, "]") # 0
    IN  IF open # close THEN Raise("ValueError", <<"Invalid IPv6 URL">>)
        ELSE Ok([scheme |-> UrlScheme(s), netloc |-> netloc])

is_url(source) ==
    LET result == urlparse(source) IN
    IF ~result.ok THEN FALSE
    ELSE result.val.scheme # << >> /\ result.val.netloc # << >>

(* base64.b64decode(s, validate=True) of a string without "=" padding: the *)
(* number of bytes it decodes to, or binascii.Error                        *)

Base64Chars == Lower \cup Upper \cup Digits \cup {"+", "/"}

b64decode(s) ==
    IF \E k \in 1..Len(s) : s[k] \notin Base64Chars
    THEN Raise("binascii.Error", <<"Only base64 data is allowed">>)
    ELSE IF Len(s) % 4 # 0
    THEN Raise("binascii.Error", <<"Incorrect padding">>)
    ELSE Ok((Len(s) \div 4) * 3)

AfterFirstComma(s) == SubSeq(s, Find(s, ",") + 1, Len(s))

DataImageSlash ==
    <<"d", "a", "t", "a", ":", "i", "m", "a", "g", "e", "/">>

is_base64_image(source) ==
    IF StartsWith(source, DataImageSlash) THEN TRUE
    ELSE LET payload == IF Find(source, ",") # 0
                        THEN AfterFirstComma(source) ELSE source
             decoded == b64decode(payload)
         IN  IF ~decoded.ok THEN FALSE ELSE decoded.val > 0

(* os.path.normpath (posixpath) *)

RECURSIVE NormComps(_, _, _)
NormComps(comps, new_comps, initial_slashes) ==
    IF comps = << >> THEN new_comps
    ELSE LET comp == Head(comps)
             last == Len(new_comps)
         IN  IF comp = << >> \/ comp = <<".">>
             THEN NormComps(Tail(comps), new_comps, initial_slashes)
             ELSE IF \/ comp # <<".", ".">>
                     \/ (initial_slashes = 0 /\ new_comps = << >>)
                     \/ (new_comps # << >> /\ new_comps[last] = <<".", ".">>)
             THEN NormComps(Tail(comps), Append(new_comps, comp),
                            initial_slashes)
             ELSE IF new_comps # << >>
             THEN NormComps(Tail(comps), SubSeq(new_comps, 1, last - 1),
                            initial_slashes)
             ELSE NormComps(Tail(comps), new_comps, initial_slashes)

normpath(path) ==
    LET initial_slashes ==
            IF ~StartsWith(path, <<"/">>) THEN 0
            ELSE IF StartsWith(path, <<"/", "/">>)
                    /\ ~StartsWith(path, <<"/", "/", "/">>)
            THEN 2 ELSE 1
        comps == NormComps(Split(path, "/"), << >>, initial_slashes)
        joined == SubSeq(<<"/", "/">>, 1, initial_slashes) \o Join(comps, "/")
    IN  IF path = << >> \/ joined = << >> THEN <<".">> ELSE joined

(* The file system of the host: its regular files, by normalized path, and *)
(* the bytes of each; every other path that exists is a directory.         *)

EtcPasswd == <<"/", "e", "t", "c", "/", "p", "a", "s", "s", "w", "d">>

VarImgCat ==
    <<"/", "v", "a", "r", "/", "i", "m", "g", "/", "c", "a", "t", ".", "p",
      "n", "g">>

PngBytes == SourceInfo("/img/ok.png")

NotAnImage(size) ==
    [load |-> "ok", size_bytes |-> size, decodable |-> FALSE,
     pil_format |-> None, magic |-> "", width |-> 0, height |-> 0,
     mode |-> ""]

Files ==
    {Text(s) : s \in {n \in Sources : SourceInfo(n).load = "ok"}}
    \cup {EtcPasswd, VarImgCat}

Directories ==
    {<<".">>, <<"/">>, <<"/", "e", "t", "c">>, <<"/", "v", "a", "r">>,
     <<"/", "i", "m", "g">>, <<"/", "v", "a", "r", "/", "i", "m", "g">>}

read_bytes(path) ==
    IF \E s \in Sources : Text(s) = path
    THEN SourceInfo(CHOOSE s \in Sources : Text(s) = path)
    ELSE IF path = VarImgCat THEN PngBytes
    ELSE NotAnImage(1500)

sanitize_file_path(file_path) ==
    LET clean_path == normpath(file_path) IN
    IF Contains(clean_path, <<".", ".">>)
    THEN Raise("ImageValidationError", <<"Invalid file path: ">> \o file_path)
    ELSE IF clean_path \notin Files \cup Directories
    THEN Raise("ImageLoadError", <<"File not found: ">> \o file_path)
    ELSE IF clean_path \notin Files
    THEN Raise("ImageLoadError", <<"Path is not a file: ">> \o file_path)
    ELSE Ok(clean_path)

load_image_from_file(file_path) ==
    LET path == sanitize_file_path(file_path) IN
    IF path.ok THEN Ok(read_bytes(path.val))
    ELSE Raise("ImageLoadError",
               <<"Failed to load image from file: ">> \o path.err)

(* load_image_from_base64: the payload named PngPayload stands for the     *)
(* base64 text of a whole PNG file, every other payload decodes to bytes   *)
(* that are no image                                                       *)

PngPayload == <<"i", "V", "B", "O", "R", "w", "0", "K">>

Base64Payload(base64_data) ==
    IF StartsWith(base64_data, DataImageSlash) /\ Find(base64_data, ",") # 0
    THEN AfterFirstComma(base64_data) ELSE base64_data

load_image_from_base64(base64_data) ==
    LET payload == Base64Payload(base64_data)
        decoded == b64decode(payload)
    IN  IF ~decoded.ok
        THEN Raise("ImageLoadError",
                   <<"Failed to decode base64 image data: ">> \o decoded.err)
        ELSE IF payload = PngPayload THEN Ok(PngBytes)
        ELSE Ok(NotAnImage(decoded.val))

(* load_image_from_url: what the GET of the url does is the environment's  *)
(* choice                                                                  *)

UrlOutcomes == {"image", "not_image", "request_error", "http_status_error"}

load_image_from_url(url, outcome) ==
    CASE outcome = "image" -> Ok(PngBytes)
      [] outcome = "not_image" ->
           Raise("ImageLoadError",
                 <<"URL does not point to an image: ", "text/html">>)
      [] outcome = "request_error" ->
           Raise("ImageLoadError", <<"Failed to load image from URL: ">>)
      [] outcome = "http_status_error" ->
           Raise("ImageLoadError", <<"HTTP error loading image: ", "404">>)

Tagged(r, source_type) ==
    IF r.ok THEN Ok([data |-> r.val, source_type |-> source_type]) ELSE r

SourceBranch_Base64First(source) ==
    IF is_base64_image(source) THEN "base64"
    ELSE IF is_url(source) THEN "url"
    ELSE "file"

(* load_image_data: the branch of its if / elif / else that a source takes *)
SourceBranch(source) ==
    IF is_url(source) THEN "url"
    ELSE IF is_base64_image(source) THEN "base64"
    ELSE "file"

load_image_data(source, outcome) ==
    CASE SourceBranch(source) = "url" ->
           Tagged(load_image_from_url(source, outcome), "url")
      [] SourceBranch(source) = "base64" ->
           Tagged(load_image_from_base64(source), "base64")
      [] SourceBranch(source) = "file" ->
           Tagged(load_image_from_file(source), "file")

validate_image_size_AtLeast(data, max_size_mb) ==
    IF data.size_bytes >= max_size_mb * MB
    THEN Raise("ImageValidationError",
               <<"Image size ", "exceeds maximum allowed size">>)
    ELSE Ok(TRUE)

validate_image_size(data, max_size_mb) ==
    IF data.size_bytes > max_size_mb * MB
    THEN Raise("ImageValidationError",
               <<"Image size ", "exceeds maximum allowed size">>)
    ELSE Ok(TRUE)

NormalizerFormats == {"JPEG", "PNG", "WebP", "GIF", "BMP", "TIFF"}

validate_image_format(format) ==
    IF format \notin NormalizerFormats
    THEN Raise("ImageValidationError",
               <<"Unsupported image format: ", format>>)
    ELSE Ok(TRUE)

SniffFormat(data) ==
    CASE data.magic = "PNG" -> "PNG"
      [] data.magic = "JPEG" -> "JPEG"
      [] data.magic = "RIFF-WEBP" -> "WEBP"
      [] data.magic = "GIF8" -> "GIF"
      [] OTHER -> "PNG"

(* int(x * ratio) with ratio = max_dimension / d in IEEE double arithmetic, *)
(* for 1 <= x <= d and max_dimension < d < 2^13.  The quotient is rounded  *)
(* to 53 bits, and so is the product; with L = floor(log2 d) and           *)
(* r = 2^(53+L) mod d the rounded quotient is (2^(53+L) - r) / d scaled by *)
(* a power of 2 when 2r < d (rounded down) and (2^(53+L) + d - r) / d      *)
(* otherwise.  When max_dimension * x / d is no integer, the two roundings *)
(* are too small to change its integer part.  When it is an integer k, the *)
(* product is k exactly, or just above k, unless the quotient was rounded  *)
(* down by so much that the product rounds to the double below k, and      *)
(* int() then gives k - 1.                                                 *)

RECURSIVE Log2(_)
Log2(n) == IF n <= 1 THEN 0 ELSE 1 + Log2(n \div 2)

RECURSIVE Pow2(_)
Pow2(e) == IF e = 0 THEN 1 ELSE 2 * Pow2(e - 1)

RECURSIVE Pow2Mod(_, _)
Pow2Mod(e, d) == IF e = 0 THEN 1 % d ELSE (2 * Pow2Mod(e - 1, d)) % d

FloatScaled(x, d) ==
    LET L == Log2(d)
        r == Pow2Mod(53 + L, d)
        k == (MaxDimension * x) \div d
        a == Log2(k)
        half_ulp == IF k = Pow2(a) THEN Pow2(L + a - 1) ELSE Pow2(L + a)
    IN  IF (MaxDimension * x) % d # 0 THEN k
        ELSE IF r = 0 \/ 2 * r > d THEN k
        ELSE IF k * r > half_ulp THEN k - 1
        ELSE k

ResizedSize(w, h) ==
    IF w >= h THEN <<FloatScaled(w, w), FloatScaled(h, w)>>
    ELSE <<FloatScaled(w, h), FloatScaled(h, h)>>

validate_and_process_image(data, max_size_mb) ==
    LET size == validate_image_size(data, max_size_mb)
        format == IF data.pil_format = None THEN SniffFormat(data)
                  ELSE data.pil_format[1]
        fmt == validate_image_format(format)
        big == data.width > MaxDimension \/ data.height > MaxDimension
        new == ResizedSize(data.width, data.height)
    IN  IF ~size.ok THEN size
        ELSE IF ~data.decodable
        THEN Raise("ImageValidationError",
                   <<"Failed to process image: ", "cannot identify image file">>)
        ELSE IF ~fmt.ok THEN fmt
        ELSE IF big /\ (new[1] = 0 \/ new[2] = 0)
        THEN Raise("ImageValidationError",
                   <<"Failed to process image: ",
                     "height and width must be > 0">>)
        ELSE IF big
        THEN Ok([image |-> [format |-> None, width |-> new[1],
                            height |-> new[2], mode |-> data.mode,
                            has_getexif |-> FALSE],
                 metadata |-> [width |-> new[1], height |-> new[2],
                               format |-> format, mode |-> data.mode,
                               size_bytes |-> data.size_bytes,
                               resized |-> TRUE,
                               original_size |-> <<data.width, data.height>>]])
        ELSE Ok([image |-> [format |-> Some(format), width |-> data.width,
                            height |-> data.height, mode |-> data.mode,
                            has_getexif |-> format \in {"JPEG", "PNG"}],
                 metadata |-> [width |-> data.width, height |-> data.height,
                               format |-> format, mode |-> data.mode,
                               size_bytes |-> data.size_bytes,
                               resized |-> FALSE,
                               original_size |-> << >>]])

JpegWritableModes == {"1", "L", "RGB", "CMYK"}

image_to_base64(img) ==
    IF img.mode = "RGBA" \/ img.mode \in JpegWritableModes
    THEN Ok([prefix |-> "data:image/jpeg;base64,", width |-> img.width,
             height |-> img.height])
    ELSE Raise("OSError", <<"cannot write mode ", img.mode, " as JPEG">>)

---------------------------------------------------------------------------
(* api_clients/base.py, api_clients/openai_client.py *)

OpenAIImageClient(key, timeout, max_retries) ==
    [provider |-> "openai", api_key |-> key, timeout |-> timeout,
     max_retries |-> max_retries]

supported_formats == {"JPEG", "PNG", "WebP", "GIF"}

max_image_size_mb == ProviderMaxMB

validate_image(img) ==
    LET image_format ==
            IF img.format # None THEN img.format[1]
            ELSE IF img.has_getexif \/ img.mode \in {"RGB", "RGBA"} THEN "JPEG"
            ELSE IF img.mode \in {"P", "L"} THEN "PNG"
            ELSE "JPEG"
    IN  IF image_format \notin supported_formats
        THEN Raise("ValueError",
                   <<"Unsupported image format: ", image_format,
                     ". Supported formats: ", "JPEG, PNG, WebP, GIF">>)
        ELSE IF img.width * img.height * 3 > max_image_size_mb * MB
        THEN Raise("ValueError",
                   <<"Image too large: ~", ". Maximum size: ">>)
        ELSE Ok(TRUE)

create_api_client(prov, key, cfg) ==
    IF prov = "openai"
    THEN Ok(OpenAIImageClient(key, cfg.request_timeout, cfg.max_retries))
    ELSE Raise("ValueError", <<"Unsupported API provider: ", prov>>)

(* _make_api_call: the remote attempt and the retry decorator *)

(* The content of a response, as text *)

JsonRecords ==
    <<"[", "{", "\"", "n", "a", "m", "e", "\"", ":", "\"", "c", "a",
      "t", "\"", ",", "\"", "c", "o", "n", "t", "e", "n", "t", "\"", ":",
      "\"", "c", "a", "t", "\"", ",", "\"", "c", "o", "n", "f", "i", "d",
      "e", "n", "c", "e", "\"", ":", "0", ".", "9", "}", "]">>

Responses == {JsonRecords}

AttemptErrors == {"RateLimitError", "APITimeoutError"}

AttemptError(e) ==
    CASE e = "RateLimitError" ->
           Raise("ValueError", <<"OpenAI rate limit exceeded: ", e>>)
      [] e = "AuthenticationError" ->
           Raise("ValueError", <<"OpenAI authentication failed: ", e>>)
      [] e \in {"APIError", "APITimeoutError"} ->
           Raise("ValueError", <<"OpenAI API error: ", e>>)
      [] e = "no_choices" ->
           Raise("ValueError", <<"Unexpected error calling OpenAI API: ",
                                 "No response from OpenAI API">>)
      [] e = "empty_content" ->
           Raise("ValueError", <<"Unexpected error calling OpenAI API: ",
                                 "Empty response from OpenAI API">>)
      [] OTHER ->
           Raise("ValueError", <<"Unexpected error calling OpenAI API: ", e>>)

stop_after_attempt(n, c) == n >= MaxAttempts

reraise_RetryError(log) == Raise("RetryError", <<"RetryError">>)

reraise(log) == log[Len(log)]

(* Response coercion *)

JsonStrings ==
    <<"[", "\"", "c", "a", "t", "\"", ",", "\"", "d", "o", "g", "\"",
      "]">>

JsonNoConfidence ==
    <<"[", "{", "\"", "n", "a", "m", "e", "\"", ":", "\"", "c", "a",
      "t", "\"", ",", "\"", "c", "o", "n", "t", "e", "n", "t", "\"", ":",
      "\"", "c", "a", "t", "\"", "}", "]">>

JsonEmptyList ==
    <<"[", "]">>

JsonObject ==
    <<"{", "\"", "t", "e", "x", "t", "\"", ":", "\"", "c", "a", "t",
      ",", " ", "d", "o", "g", "\"", "}">>

JsonOtherItems ==
    <<"[", "4", "2", ",", "{", "\"", "l", "a", "b", "e", "l", "\"", ":",
      "\"", "c", "a", "t", "\"", "}", "]">>

JsonOverConfidence ==
    <<"[", "{", "\"", "n", "a", "m", "e", "\"", ":", "\"", "c", "a", "t",
      "\"", ",", "\"", "c", "o", "n", "t", "e", "n", "t", "\"", ":", "\"",
      "c", "a", "t", "\"", ",", "\"", "c", "o", "n", "f", "i", "d", "e", "n",
      "c", "e", "\"", ":", "1", ".", "5", "}", "]">>

JsonMixedConfidence ==
    <<"[", "{", "\"", "n", "a", "m", "e", "\"", ":", "\"", "c", "a", "t",
      "\"", ",", "\"", "c", "o", "n", "t", "e", "n", "t", "\"", ":", "\"",
      "c", "a", "t", "\"", ",", "\"", "c", "o", "n", "f", "i", "d", "e", "n",
      "c", "e", "\"", ":", "0", ".", "9", "}", ",", "{", "\"", "n", "a", "m",
      "e", "\"", ":", "\"", "d", "o", "g", "\"", ",", "\"", "c", "o", "n",
      "t", "e", "n", "t", "\"", ":", "\"", "d", "o", "g", "\"", ",", "\"",
      "c", "o", "n", "f", "i", "d", "e", "n", "c", "e", "\"", ":", "-", "0",
      ".", "1", "}", "]">>

JsonDict(keys, name, confidence) ==
    [is_dict |-> TRUE, is_str |-> FALSE, keys |-> keys, name |-> name,
     content |-> name, confidence |-> confidence]

JsonStr(value) ==
    [is_dict |-> FALSE, is_str |-> TRUE, keys |-> {}, name |-> value,
     content |-> value, confidence |-> 0]

JsonNumber ==
    [is_dict |-> FALSE, is_str |-> FALSE, keys |-> {}, name |-> << >>,
     content |-> << >>, confidence |-> 0]

JsonList(items) == [is_list |-> TRUE, items |-> items]

(* json.loads: the value of each JSON text of the model; a text that is    *)
(* none of them is no JSON                                                 *)
json_loads(r) ==
    CASE r = JsonRecords ->
           Ok(JsonList(<<JsonDict({"name", "content", "confidence"},
                                  <<"c", "a", "t">>, 9)>>))
      [] r = JsonStrings ->
           Ok(JsonList(<<JsonStr(<<"c", "a", "t">>),
                         JsonStr(<<"d", "o", "g">>)>>))
      [] r = JsonNoConfidence ->
           Ok(JsonList(<<JsonDict({"name", "content"},
                                  <<"c", "a", "t">>, 0)>>))
      [] r = JsonEmptyList -> Ok(JsonList(<< >>))
      [] r = JsonOverConfidence ->
           Ok(JsonList(<<JsonDict({"name", "content", "confidence"},
                                  <<"c", "a", "t">>, 15)>>))
      [] r = JsonMixedConfidence ->
           Ok(JsonList(<<JsonDict({"name", "content", "confidence"},
                                  <<"c", "a", "t">>, 9),
                         JsonDict({"name", "content", "confidence"},
                                  <<"d", "o", "g">>, 0 - 1)>>))
      [] r = JsonObject -> Ok([is_list |-> FALSE, items |-> << >>])
      [] r = JsonOtherItems ->
           Ok(JsonList(<<JsonNumber, JsonDict({"label"}, << >>, 0)>>))
      [] OTHER -> Raise("JSONDecodeError", <<"Expecting value">>)

(* _extract_objects_from_text, with the regular expressions of re.sub and  *)
(* re.split applied to the characters of the text                          *)

UpperSeq ==
    <<"A", "B", "C", "D", "E", "F", "G", "H", "I", "J", "K", "L", "M", "N",
      "O", "P", "Q", "R", "S", "T", "U", "V", "W", "X", "Y", "Z">>

LowerSeq ==
    <<"a", "b", "c", "d", "e", "f", "g", "h", "i", "j", "k", "l", "m", "n",
      "o", "p", "q", "r", "s", "t", "u", "v", "w", "x", "y", "z">>

ToLower(c) ==
    IF c \in Upper THEN LowerSeq[CHOOSE k \in 1..26 : UpperSeq[k] = c] ELSE c

LowerText(s) == [k \in 1..Len(s) |-> ToLower(s[k])]

StartsWithIgnoreCase(s, prefix) ==
    /\ Len(s) >= Len(prefix)
    /\ LowerText(SubSeq(s, 1, Len(prefix))) = LowerText(prefix)

Whitespace == {" ", "\t", "\n", "\r"}

Delimiters == {",", ";", ".", "\n"}

LeadInSee ==
    <<"I", " ", "c", "a", "n", " ", "s", "e", "e">>

LeadInImage ==
    <<"I", "n", " ", "t", "h", "i", "s", " ", "i", "m", "a", "g", "e">>

LeadInShows ==
    <<"T", "h", "e", " ", "i", "m", "a", "g", "e", " ", "s", "h", "o",
      "w", "s">>

LeadInContains ==
    <<"T", "h", "i", "s", " ", "i", "m", "a", "g", "e", " ", "c", "o",
      "n", "t", "a", "i", "n", "s">>

LeadIns == <<LeadInSee, LeadInImage, LeadInShows, LeadInContains>>

Articles ==
    <<<<"a">>, <<"a", "n">>, <<"t", "h", "e">>, <<"s", "o", "m", "e">>,
      <<"s", "e", "v", "e", "r", "a", "l">>, <<"m", "a", "n", "y">>,
      <<"f", "e", "w">>>>

(* re.sub("^(I can see|...)", "", text, flags=re.IGNORECASE) *)
StripLeadIn(text) ==
    LET hits == {k \in 1..Len(LeadIns) : StartsWithIgnoreCase(text, LeadIns[k])}
        first == CHOOSE k \in hits : \A j \in hits : k <= j
    IN  IF hits = {} THEN text
        ELSE SubSeq(text, Len(LeadIns[first]) + 1, Len(text))

(* re.split("[,;.\n]", text) *)
RECURSIVE SplitAny(_, _)
SplitAny(s, seps) ==
    LET at == {k \in 1..Len(s) : s[k] \in seps}
        k == CHOOSE x \in at : \A y \in at : x <= y
    IN  IF at = {} THEN <<s>>
        ELSE <<SubSeq(s, 1, k - 1)>> \o SplitAny(SubSeq(s, k + 1, Len(s)), seps)

RECURSIVE LStrip(_)
LStrip(s) ==
    IF s # << >> /\ s[1] \in Whitespace THEN LStrip(Tail(s)) ELSE s

RECURSIVE RStrip(_)
RStrip(s) ==
    IF s # << >> /\ s[Len(s)] \in Whitespace
    THEN RStrip(SubSeq(s, 1, Len(s) - 1)) ELSE s

Strip(s) == LStrip(RStrip(s))

(* re.sub("^(a|an|the|some|several|many|few)\s+", "", obj, re.IGNORECASE)  *)
StripArticle(obj) ==
    LET hits == {k \in 1..Len(Articles) :
                    /\ StartsWithIgnoreCase(obj, Articles[k])
                    /\ Len(obj) > Len(Articles[k])
                    /\ obj[Len(Articles[k]) + 1] \in Whitespace}
        first == CHOOSE k \in hits : \A j \in hits : k <= j
    IN  IF hits = {} THEN obj
        ELSE LStrip(SubSeq(obj, Len(Articles[first]) + 1, Len(obj)))

RECURSIVE HeuristicObjects(_)
HeuristicObjects(objects) ==
    IF objects = << >> THEN << >>
    ELSE LET obj == Strip(Head(objects))
             name == StripArticle(obj)
         IN  (IF obj # << >> /\ Len(obj) > 2 /\ name # << >>
              THEN <<[name |-> name, confidence |-> 7]>>
              ELSE << >>) \o HeuristicObjects(Tail(objects))

_extract_objects_from_text(text) ==
    LET detected_objects ==
            HeuristicObjects(SplitAny(StripLeadIn(text), Delimiters))
    IN  SubSeq(detected_objects, 1,
               IF Len(detected_objects) < 10 THEN Len(detected_objects)
               ELSE 10)

RECURSIVE TextItems(_)
TextItems(items) ==
    IF items = << >> THEN << >>
    ELSE LET it == Head(items) IN
         (IF it.is_dict /\ "content" \in it.keys
          THEN <<[content |-> it.content,
                  confidence |-> IF "confidence" \in it.keys
                                 THEN it.confidence ELSE 8]>>
          ELSE IF it.is_str
          THEN <<[content |-> it.content, confidence |-> 8]>>
          ELSE << >>) \o TextItems(Tail(items))

RECURSIVE ObjectItems(_)
ObjectItems(items) ==
    IF items = << >> THEN << >>
    ELSE LET it == Head(items) IN
         (IF it.is_dict /\ "name" \in it.keys
          THEN <<[name |-> it.name,
                  confidence |-> IF "confidence" \in it.keys
                                 THEN it.confidence ELSE 8]>>
          ELSE IF it.is_str
          THEN <<[name |-> it.name, confidence |-> 8]>>
          ELSE << >>) \o ObjectItems(Tail(items))

(* The records are constructed one after the other: the first constructor *)
(* that raises ends the method, otherwise the list of all of them is       *)
(* returned                                                                *)
AllOrFirstError(made) ==
    LET bad == {k \in 1..Len(made) : ~made[k].ok} IN
    IF bad # {} THEN made[CHOOSE k \in bad : \A j \in bad : k <= j]
    ELSE Ok([k \in 1..Len(made) |-> made[k].val])

TextRecords(items) ==
    LET args == TextItems(items) IN
    AllOrFirstError([k \in 1..Len(args) |->
                        ExtractedText(args[k].content, args[k].confidence)])

ObjectRecords(items) ==
    LET args == ObjectItems(items) IN
    AllOrFirstError([k \in 1..Len(args) |->
                        DetectedObject(args[k].name, args[k].confidence)])

extract_text(r) ==
    LET parsed == json_loads(r) IN
    IF ~parsed.ok THEN Ok(<<[content |-> r, confidence |-> 8]>>)
    ELSE IF ~parsed.val.is_list THEN Ok(<<[content |-> r, confidence |-> 8]>>)
    ELSE TextRecords(parsed.val.items)

detect_objects(r) ==
    LET parsed == json_loads(r) IN
    IF ~parsed.ok THEN Ok(_extract_objects_from_text(r))
    ELSE IF ~parsed.val.is_list THEN Ok(_extract_objects_from_text(r))
    ELSE ObjectRecords(parsed.val.items)

AnalysisPlan_TwoKinds(a) ==
    (IF a \in {"description", "comprehensive"} THEN <<"description">> ELSE << >>)
    \o (IF a \in {"text", "comprehensive"} THEN <<"text">> ELSE << >>)

AnalysisPlan(a) ==
    (IF a \in {"description", "comprehensive"} THEN <<"description">> ELSE << >>)
    \o (IF a \in {"text", "comprehensive"} THEN <<"text">> ELSE << >>)
    \o (IF a \in {"objects", "comprehensive"} THEN <<"objects">> ELSE << >>)

ImageMetadata(md, prov) ==
    [width |-> md.width, height |-> md.height, format |-> md.format,
     size_bytes |-> md.size_bytes, api_provider |-> prov]

---------------------------------------------------------------------------
(* The state machine *)

Configs ==
    [default_api_provider : {"openai", "anthropic"},
     max_image_size_mb : {ConfigMaxMB},
     request_timeout : {30},
     max_retries : {MaxAttempts, OtherMaxRetries},
     openai_api_key : {None, Some("sk-config")},
     anthropic_api_key : {None},
     google_credentials_path : {None},
     azure_api_key : {None}]

ProviderArgs == {None, Some("anthropic"), Some("bogus")}

ApiKeyArgs == {None, Some("sk-caller")}

AnalysisArgs == {None, Some("description"), Some("text"), Some("objects"),
                 Some("ui_analysis"), Some("bogus")}

PromptArgs == {None, Some("Count the people")}

SpecializedPromptArgs == PromptArgs \cup {Some("")}

BatchInputs == UNION {[1..n -> Sources] : n \in 0..MaxBatch}

(* What was done for the item in progress: calls begun, whether a remote   *)
(* attempt was made, and how often the client validated and encoded the    *)
(* bitmap                                                                  *)
NoItem == [calls |-> 0, remote |-> FALSE, validated |-> 0, encoded |-> 0]

Init ==
    /\ config \in Configs
    /\ req = None
    /\ pc = "idle"
    /\ provider = None
    /\ analysis = None
    /\ api_key = None
    /\ client = None
    /\ i = 0
    /\ results = << >>
    /\ successful = 0
    /\ failed = 0
    /\ image = None
    /\ metadata = None
    /\ plan = << >>
    /\ partial = ImageAnalysis
    /\ kind = ""
    /\ attempts = << >>
    /\ callres = None
    /\ output = None
    /\ hist = [loaded |-> << >>, remote_any |-> FALSE, item |-> NoItem]

Tool == req[1].tool

N == Len(req[1].sources)

Source == req[1].sources[i]

Item == [index |-> i, source |-> Source]

ItemVars == <<image, metadata, plan, partial, kind, attempts, callres>>

ResetItem ==
    /\ image' = None
    /\ metadata' = None
    /\ plan' = << >>
    /\ partial' = ImageAnalysis
    /\ kind' = ""
    /\ attempts' = << >>
    /\ callres' = None

(* The tools are called *)

CallProcessImage ==
    /\ pc = "idle"
    /\ \E src \in Sources, p \in ProviderArgs, k \in ApiKeyArgs,
          a \in AnalysisArgs, pr \in PromptArgs :
          req' = Some([tool |-> "process_image", entry |-> "process_image",
                       sources |-> <<src>>,
                       api_provider |-> p, api_key |-> k,
                       analysis_type |-> a, prompt |-> pr])
    /\ i' = 1
    /\ pc' = "resolve"
    /\ UNCHANGED <<config, provider, analysis, api_key, client, results,
                   successful, failed, ItemVars, output, hist>>

(* extract_text and detect_objects return await process_image(...) with    *)
(* analysis_type fixed: the call in progress is process_image's, entry     *)
(* names the tool the caller invoked                                       *)
CallSpecialized(entry, analysis_type) ==
    /\ pc = "idle"
    /\ \E src \in Sources, p \in ProviderArgs, k \in ApiKeyArgs,
          pr \in SpecializedPromptArgs :
          req' = Some([tool |-> "process_image", entry |-> entry,
                       sources |-> <<src>>,
                       api_provider |-> p, api_key |-> k,
                       analysis_type |-> Some(analysis_type), prompt |-> pr])
    /\ i' = 1
    /\ pc' = "resolve"
    /\ UNCHANGED <<config, provider, analysis, api_key, client, results,
                   successful, failed, ItemVars, output, hist>>

CallExtractText == CallSpecialized("extract_text", "text")

CallDetectObjects == CallSpecialized("detect_objects", "objects")

CallAnalyzeImageBatch ==
    /\ pc = "idle"
    /\ \E srcs \in BatchInputs, p \in ProviderArgs, k \in ApiKeyArgs,
          a \in AnalysisArgs, pr \in PromptArgs :
          req' = Some([tool |-> "analyze_image_batch",
                       entry |-> "analyze_image_batch", sources |-> srcs,
                       api_provider |-> p, api_key |-> k,
                       analysis_type |-> a, prompt |-> pr])
    /\ i' = 1
    /\ pc' = "resolve"
    /\ UNCHANGED <<config, provider, analysis, api_key, client, results,
                   successful, failed, ItemVars, output, hist>>

(* What process_image returns, or raises *)

Returned(result) ==
    [tool |-> "process_image", raised |-> FALSE, result |-> result]

Raised(e) == [tool |-> "process_image", raised |-> TRUE, result |-> e]

(* process_image: the two except clauses *)
ProcessImageExcept(e) ==
    LET p == APIProvider(OrElse(req[1].api_provider,
                                config.default_api_provider))
    IN  IF ~p.ok THEN Raised(p)
        ELSE IF e.val \in {"ImageLoadError", "ImageValidationError"}
        THEN Returned(ProcessingResult(FALSE, p.val, None, Some(e.err),
                                       Item))
        ELSE Returned(ProcessingResult(FALSE, p.val, None,
                                       Some(<<"Unexpected error: ">> \o e.err),
                                       Item))

BatchItemExcept_NoCount(e) ==
    /\ results' = Append(results,
                         ProcessingResult(FALSE, provider[1], None,
                                          Some(e.err), Item))
    /\ UNCHANGED <<successful, failed>>

(* analyze_image_batch: the except clause of the loop body *)
BatchItemExcept(e) ==
    /\ results' = Append(results,
                         ProcessingResult(FALSE, provider[1], None,
                                          Some(e.err), Item))
    /\ failed' = failed + 1
    /\ UNCHANGED successful

(* analyze_image_batch: results.append(result) and the two counters *)
BatchAppend(result) ==
    /\ results' = Append(results, result)
    /\ IF result.success
       THEN successful' = successful + 1 /\ UNCHANGED failed
       ELSE failed' = failed + 1 /\ UNCHANGED successful

(* the loop goes to its next item, or ends *)
BatchAdvance(h) ==
    /\ i' = i + 1
    /\ pc' = IF i + 1 <= N THEN "load" ELSE "return"
    /\ hist' = [h EXCEPT !.item = NoItem]
    /\ UNCHANGED output

ToolExcept_BreaksLoop(e, h) ==
    /\ ResetItem
    /\ IF Tool = "process_image"
       THEN /\ output' = Some(ProcessImageExcept(e))
            /\ pc' = "done"
            /\ hist' = h
            /\ UNCHANGED <<i, results, successful, failed>>
       ELSE /\ BatchItemExcept(e)
            /\ i' = i + 1
            /\ pc' = "return"
            /\ hist' = [h EXCEPT !.item = NoItem]
            /\ UNCHANGED output

ToolExcept_Swallows(e, h) ==
    /\ pc' = "dispatch"
    /\ hist' = h
    /\ UNCHANGED <<i, results, successful, failed, ItemVars, output>>

(* An exception e reaches the tool's try block while it handles an item *)
ToolExcept(e, h) ==
    /\ ResetItem
    /\ IF Tool = "process_image"
       THEN /\ output' = Some(ProcessImageExcept(e))
            /\ pc' = "done"
            /\ hist' = h
            /\ UNCHANGED <<i, results, successful, failed>>
       ELSE BatchItemExcept(e) /\ BatchAdvance(h)

(* The client call returns its ProcessingResult to the tool *)
ToolResult(result, h) ==
    /\ ResetItem
    /\ IF Tool = "process_image"
       THEN /\ output' = Some(Returned(result))
            /\ pc' = "done"
            /\ hist' = h
            /\ UNCHANGED <<i, results, successful, failed>>
       ELSE BatchAppend(result) /\ BatchAdvance(h)

(* process_image: provider, analysis kind and credential *)
ProcessImageResolve ==
    /\ pc = "resolve"
    /\ Tool = "process_image"
    /\ LET p == APIProvider(OrElse(req[1].api_provider,
                                   config.default_api_provider))
           a == AnalysisType(OrElse(req[1].analysis_type, "comprehensive"))
           k == get_api_key(p.val, config, req[1].api_key)
           e == IF ~p.ok THEN p
                ELSE IF ~a.ok THEN a
                ELSE Raise("ValueError",
                           <<"No API key available for provider: ", p.val>>)
       IN  IF p.ok /\ a.ok /\ Truthy(k)
           THEN /\ provider' = Some(p.val)
                /\ analysis' = Some(a.val)
                /\ api_key' = k
                /\ pc' = "load"
                /\ UNCHANGED output
           ELSE /\ output' = Some(ProcessImageExcept(e))
                /\ pc' = "done"
                /\ UNCHANGED <<provider, analysis, api_key>>
    /\ UNCHANGED <<config, req, client, i, results, successful, failed,
                   ItemVars, hist>>

(* analyze_image_batch: provider, analysis kind, credential and client; any *)
(* failure here is caught by the outer except clause                       *)
BatchResolve ==
    /\ pc = "resolve"
    /\ Tool = "analyze_image_batch"
    /\ LET p == APIProvider(OrElse(req[1].api_provider,
                                   config.default_api_provider))
           a == AnalysisType(OrElse(req[1].analysis_type, "comprehensive"))
           k == get_api_key(p.val, config, req[1].api_key)
           c == create_api_client(p.val, k[1], config)
       IN  IF p.ok /\ a.ok /\ Truthy(k) /\ c.ok
           THEN /\ provider' = Some(p.val)
                /\ analysis' = Some(a.val)
                /\ api_key' = k
                /\ client' = Some(c.val)
                /\ pc' = IF 1 <= N THEN "load" ELSE "return"
                /\ UNCHANGED output
           ELSE /\ output' = Some(BatchProcessingResult(N, 0, N, << >>))
                /\ pc' = "done"
                /\ UNCHANGED <<provider, analysis, api_key, client>>
    /\ UNCHANGED <<config, req, i, results, successful, failed, ItemVars,
                   hist>>

(* load_image_data(image_source, config.request_timeout); the sources of   *)
(* Sources are file paths, so the outcome of a GET plays no part           *)
LoadImage ==
    /\ pc = "load"
    /\ \E outcome \in UrlOutcomes :
       LET data == load_image_data(Text(Source), outcome)
           h == [hist EXCEPT !.loaded = Append(@, i)]
       IN  IF data.ok
           THEN /\ image' = Some(data.val.data)
                /\ pc' = "normalize"
                /\ hist' = h
                /\ UNCHANGED <<i, results, successful, failed, metadata, plan,
                               partial, kind, attempts, callres, output>>
           ELSE ToolExcept(data, h)
    /\ UNCHANGED <<config, req, provider, analysis, api_key, client>>

(* validate_and_process_image(image_data, config.max_image_size_mb) *)
NormalizeImage ==
    /\ pc = "normalize"
    /\ LET r == validate_and_process_image(image[1], config.max_image_size_mb)
       IN  IF r.ok
           THEN /\ image' = Some(r.val.image)
                /\ metadata' = Some(r.val.metadata)
                /\ pc' = "dispatch"
                /\ UNCHANGED <<i, results, successful, failed, plan, partial,
                               kind, attempts, callres, output, hist>>
           ELSE ToolExcept(r, hist)
    /\ UNCHANGED <<config, req, provider, analysis, api_key, client>>

ClientFailure_KeepsAnalysis(e) ==
    ProcessingResult(FALSE, "openai", Some(partial), Some(e.err), Item)

ClientFailure(e) ==
    ProcessingResult(FALSE, "openai", None, Some(e.err), Item)

ClientSuccess(an) ==
    ProcessingResult(TRUE, "openai",
                     Some([description |-> an.description,
                           objects |-> an.objects, text |-> an.text,
                           metadata |-> ImageMetadata(metadata[1], "openai")]),
                     None, Item)

CustomAnalysis_Coerced(response) ==
    [description |-> Some(response), objects |-> detect_objects(response).val,
     text |-> << >>]

(* analyze_with_custom_prompt: the analysis made of the response *)
CustomAnalysis(response) ==
    [description |-> Some(response), objects |-> << >>, text |-> << >>]

UsesCustomPrompt_GenericToolsOnly(r) ==
    Truthy(r.prompt) /\ r.entry \in {"process_image", "analyze_image_batch"}

(* `if prompt:` of the two tools *)
UsesCustomPrompt(r) == Truthy(r.prompt)

(* The tool creates its client (process_image) and calls it: with a prompt *)
(* analyze_with_custom_prompt up to its remote call, otherwise             *)
(* client.process_image up to the first kind of analyze_image              *)
Dispatch ==
    /\ pc = "dispatch"
    /\ LET c == IF Tool = "process_image"
                THEN create_api_client(provider[1], api_key[1], config)
                ELSE Ok(client[1])
           v == validate_image(image[1])
           enc == image_to_base64(image[1])
           hv == [hist EXCEPT !.item.validated = @ + 1]
           he == [hv EXCEPT !.item.encoded = @ + 1]
       IN  IF ~c.ok THEN ToolExcept(c, hist) /\ UNCHANGED client
           ELSE /\ client' = Some(c.val)
                /\ IF ~v.ok THEN ToolResult(ClientFailure(v), hv)
                   ELSE IF ~UsesCustomPrompt(req[1])
                   THEN /\ plan' = AnalysisPlan(analysis[1])
                        /\ partial' = ImageAnalysis
                        /\ pc' = "analyze"
                        /\ hist' = hv
                        /\ UNCHANGED <<i, results, successful, failed, image,
                                       metadata, kind, attempts, callres,
                                       output>>
                   ELSE IF ~enc.ok THEN ToolResult(ClientFailure(enc), he)
                   ELSE /\ kind' = "custom"
                        /\ attempts' = << >>
                        /\ pc' = "attempt"
                        /\ hist' = [he EXCEPT !.item.calls = @ + 1]
                        /\ UNCHANGED <<i, results, successful, failed, image,
                                       metadata, plan, partial, callres,
                                       output>>
    /\ UNCHANGED <<config, req, provider, analysis, api_key>>

(* analyze_image: the next kind: describe_image, extract_text or           *)
(* detect_objects, up to its remote call                                   *)
BeginCall ==
    /\ pc = "analyze"
    /\ plan # << >>
    /\ LET v == validate_image(image[1])
           enc == image_to_base64(image[1])
           hv == [hist EXCEPT !.item.validated = @ + 1]
           he == [hv EXCEPT !.item.encoded = @ + 1]
       IN  IF ~v.ok THEN ToolResult(ClientFailure(v), hv)
           ELSE IF ~enc.ok THEN ToolResult(ClientFailure(enc), he)
           ELSE /\ kind' = Head(plan)
                /\ plan' = Tail(plan)
                /\ attempts' = << >>
                /\ pc' = "attempt"
                /\ hist' = [he EXCEPT !.item.calls = @ + 1]
                /\ UNCHANGED <<i, results, successful, failed, image, metadata,
                               partial, callres, output>>
    /\ UNCHANGED <<config, req, provider, analysis, api_key, client>>

(* analyze_image returns and client.process_image wraps the analysis *)
AnalyzeReturn ==
    /\ pc = "analyze"
    /\ plan = << >>
    /\ ToolResult(ClientSuccess(partial), hist)
    /\ UNCHANGED <<config, req, provider, analysis, api_key, client>>

(* One remote attempt of _make_api_call that returns content, one of the  *)
(* given responses                                                         *)
AttemptReturns(responses) ==
    /\ pc = "attempt"
    /\ \E r \in responses :
          /\ attempts' = Append(attempts, Ok(r))
          /\ callres' = Some(Ok(r))
    /\ pc' = "call_return"
    /\ hist' = [hist EXCEPT !.item.remote = TRUE, !.remote_any = TRUE]
    /\ UNCHANGED <<config, req, provider, analysis, api_key, client, i,
                   results, successful, failed, image, metadata, plan, partial,
                   kind, output>>

AttemptOk == AttemptReturns(Responses)

AttemptFail_RetriesFromEncoding ==
    /\ pc = "attempt"
    /\ \E e \in AttemptErrors :
          LET log == Append(attempts, AttemptError(e)) IN
          /\ attempts' = log
          /\ IF stop_after_attempt(Len(log), client[1])
             THEN callres' = Some(reraise(log)) /\ pc' = "call_return"
             ELSE UNCHANGED callres /\ pc' = "attempt"
    /\ hist' = [hist EXCEPT !.item.remote = TRUE, !.remote_any = TRUE,
                            !.item.validated = @ + 1, !.item.encoded = @ + 1]
    /\ UNCHANGED <<config, req, provider, analysis, api_key, client, i,
                   results, successful, failed, image, metadata, plan, partial,
                   kind, output>>

(* One remote attempt of _make_api_call that raises: the decorator retries *)
(* or gives up                                                             *)
AttemptFail ==
    /\ pc = "attempt"
    /\ \E e \in AttemptErrors :
          LET log == Append(attempts, AttemptError(e)) IN
          /\ attempts' = log
          /\ IF stop_after_attempt(Len(log), client[1])
             THEN callres' = Some(reraise(log)) /\ pc' = "call_return"
             ELSE UNCHANGED callres /\ pc' = "attempt"
    /\ hist' = [hist EXCEPT !.item.remote = TRUE, !.remote_any = TRUE]
    /\ UNCHANGED <<config, req, provider, analysis, api_key, client, i,
                   results, successful, failed, image, metadata, plan, partial,
                   kind, output>>

(* _make_api_call is over: its caller coerces the content, or the error    *)
(* reaches the except clause of the client                                 *)
CallReturn ==
    /\ pc = "call_return"
    /\ LET r == callres[1] IN
       IF ~r.ok THEN ToolResult(ClientFailure(r), hist)
       ELSE IF kind = "custom"
       THEN ToolResult(ClientSuccess(CustomAnalysis(r.val)), hist)
       ELSE IF kind = "text" /\ ~extract_text(r.val).ok
       THEN ToolResult(ClientFailure(extract_text(r.val)), hist)
       ELSE IF kind = "objects" /\ ~detect_objects(r.val).ok
       THEN ToolResult(ClientFailure(detect_objects(r.val)), hist)
       ELSE /\ partial' =
                 CASE kind = "description" ->
                        [partial EXCEPT !.description = Some(r.val)]
                   [] kind = "text" ->
                        [partial EXCEPT !.text = extract_text(r.val).val]
                   [] kind = "objects" ->
                        [partial EXCEPT !.objects = detect_objects(r.val).val]
            /\ attempts' = << >>
            /\ callres' = None
            /\ kind' = ""
            /\ pc' = "analyze"
            /\ UNCHANGED <<i, results, successful, failed, image, metadata,
                           plan, output, hist>>
    /\ UNCHANGED <<config, req, provider, analysis, api_key, client>>

(* analyze_image_batch: the batch result after the loop *)
BatchReturn ==
    /\ pc = "return"
    /\ output' = Some(BatchProcessingResult(N, successful, failed, results))
    /\ pc' = "done"
    /\ UNCHANGED <<config, req, provider, analysis, api_key, client, i,
                   results, successful, failed, ItemVars, hist>>

Next ==
    \/ CallProcessImage
    \/ CallExtractText
    \/ CallDetectObjects
    \/ CallAnalyzeImageBatch
    \/ ProcessImageResolve
    \/ BatchResolve
    \/ LoadImage
    \/ NormalizeImage
    \/ Dispatch
    \/ BeginCall
    \/ AnalyzeReturn
    \/ AttemptOk
    \/ AttemptFail
    \/ CallReturn
    \/ BatchReturn

Spec == Init /\ [][Next]_vars

---------------------------------------------------------------------------
(* The Source Resolver on its own: load_image_data applied to one source   *)
(* string, one step per call it makes, followed by the normalization the   *)
(* tools apply to the bytes it returns.  Here req is the call's argument,  *)
(* output what load_image_data returned or raised, image and metadata the  *)
(* result of the normalization, and hist the calls made: is_url and        *)
(* is_base64 the results of the two classifiers (None: not called), branch *)
(* the branch taken, io the I/O operations in order, normalized whether    *)
(* validate_and_process_image was called.                                  *)

MaxTokens == 3

DataImagePrefix ==
    <<"d", "a", "t", "a", ":", "i", "m", "a", "g", "e", "/", "p", "n", "g",
      ";", "b", "a", "s", "e", "6", "4", ",">>

DataTextPrefix ==
    <<"d", "a", "t", "a", ":", "t", "e", "x", "t", "/", "p", "l", "a", "i",
      "n", ";", "b", "a", "s", "e", "6", "4", ",">>

HttpPrefix == <<"h", "t", "t", "p", ":", "/", "/">>

PortOnly == <<":", "8", "0">>

FileName == <<"c", "a", "t", ".", "p", "n", "g">>

AbsoluteDir == <<"/", "v", "a", "r", "/", "i", "m", "g", "/">>

Traversal ==
    <<".", ".", "/", ".", ".", "/", "e", "t", "c", "/", "p", "a", "s", "s",
      "w", "d">>

Tokens ==
    {DataImagePrefix, DataTextPrefix, PngPayload, HttpPrefix, PortOnly,
     FileName, AbsoluteDir, Traversal}

RECURSIVE SourceTexts(_)
SourceTexts(n) ==
    IF n = 0 THEN {<< >>}
    ELSE SourceTexts(n - 1)
         \cup {t \o x : t \in Tokens, x \in SourceTexts(n - 1)}

DefaultConfig ==
    [default_api_provider |-> "openai", max_image_size_mb |-> ConfigMaxMB,
     request_timeout |-> 30, max_retries |-> MaxAttempts,
     openai_api_key |-> None, anthropic_api_key |-> None,
     google_credentials_path |-> None, azure_api_key |-> None]

NoTool ==
    /\ provider = None
    /\ analysis = None
    /\ api_key = None
    /\ client = None
    /\ i = 0
    /\ results = << >>
    /\ successful = 0
    /\ failed = 0
    /\ image = None
    /\ metadata = None
    /\ plan = << >>
    /\ partial = ImageAnalysis
    /\ kind = ""
    /\ attempts = << >>
    /\ callres = None
    /\ output = None

InitResolver ==
    /\ config = DefaultConfig
    /\ req \in {Some([tool |-> "load_image_data", source |-> t]) :
                   t \in SourceTexts(MaxTokens)}
    /\ pc = "classify"
    /\ NoTool
    /\ hist = [is_url |-> None, is_base64 |-> None, branch |-> "",
               io |-> << >>, normalized |-> FALSE]

ResolverIdle ==
    <<config, req, provider, analysis, api_key, client, i, results,
      successful, failed, plan, partial, kind, attempts, callres>>

(* load_image_data: the conditions of its if and elif *)
ResolverClassify ==
    /\ pc = "classify"
    /\ LET source == req[1].source
           u == is_url(source)
       IN  /\ hist' = [hist EXCEPT
                          !.is_url = Some(u),
                          !.is_base64 = IF u THEN None
                                        ELSE Some(is_base64_image(source)),
                          !.branch = SourceBranch(source)]
           /\ pc' = SourceBranch(source)
    /\ UNCHANGED <<ResolverIdle, image, metadata, output>>

ResolverReturn(r) ==
    /\ output' = Some(r)
    /\ pc' = IF r.ok THEN "loaded" ELSE "done"

(* data = await load_image_from_url(source, timeout); return data, "url" *)
LoadFromUrl ==
    /\ pc = "url"
    /\ \E outcome \in UrlOutcomes :
          ResolverReturn(Tagged(load_image_from_url(req[1].source, outcome),
                                "url"))
    /\ hist' = [hist EXCEPT !.io = Append(@, "http_get")]
    /\ UNCHANGED <<ResolverIdle, image, metadata>>

(* data = load_image_from_base64(source); return data, "base64" *)
LoadFromBase64 ==
    /\ pc = "base64"
    /\ ResolverReturn(Tagged(load_image_from_base64(req[1].source), "base64"))
    /\ UNCHANGED <<ResolverIdle, image, metadata, hist>>

(* data = load_image_from_file(source); return data, "file": the path is   *)
(* looked up (exists, is_file) when it passed the ".." test and read when  *)
(* sanitize_file_path returned it                                          *)
LoadFromFile ==
    /\ pc = "file"
    /\ LET source == req[1].source
           path == sanitize_file_path(source)
           looked == IF Contains(normpath(source), <<".", ".">>) THEN << >>
                     ELSE <<"stat">>
           read == IF path.ok THEN <<"read_bytes">> ELSE << >>
       IN  /\ ResolverReturn(Tagged(load_image_from_file(source), "file"))
           /\ hist' = [hist EXCEPT !.io = @ \o looked \o read]
    /\ UNCHANGED <<ResolverIdle, image, metadata>>

(* The tool passes the bytes to validate_and_process_image *)
ResolverNormalize ==
    /\ pc = "loaded"
    /\ LET r == validate_and_process_image(output[1].val.data,
                                           config.max_image_size_mb)
       IN  /\ image' = IF r.ok THEN Some(r.val.image) ELSE None
           /\ metadata' = IF r.ok THEN Some(r.val.metadata) ELSE None
    /\ hist' = [hist EXCEPT !.normalized = TRUE]
    /\ pc' = "done"
    /\ UNCHANGED <<ResolverIdle, output>>

NextResolver ==
    \/ ResolverClassify
    \/ LoadFromUrl
    \/ LoadFromBase64
    \/ LoadFromFile
    \/ ResolverNormalize

SpecResolver == InitResolver /\ [][NextResolver]_vars

---------------------------------------------------------------------------
(* The Normalizer on its own: validate_and_process_image applied to one    *)
(* byte buffer, one step per statement of its try block.  Here req is the  *)
(* call's arguments, image the PIL image once opened, metadata the         *)
(* metadata dict once built, output what the function returned or raised,  *)
(* and hist the calls made: opened whether Image.open was called,          *)
(* format_ok the outcome of the format check (None: not reached).          *)

Widths == {1, 100, 2048, 2049, 3136, 4096}

Heights == {1, 2, 80, 2048, 3136}

CodecFormats == {"JPEG", "PNG", "WEBP", "GIF", "BMP", "TIFF", "ICO"}

MagicOf(format) ==
    CASE format = "JPEG" -> "JPEG"
      [] format = "PNG" -> "PNG"
      [] format = "WEBP" -> "RIFF-WEBP"
      [] format = "GIF" -> "GIF8"
      [] format = "BMP" -> "BM"
      [] format = "TIFF" -> "II"
      [] OTHER -> ""

BufferSizes == {5000, ConfigMaxMB * MB, ConfigMaxMB * MB + 1}

(* A buffer the codec opens, with the format tag the codec gives it or,    *)
(* when it gives none, the first bytes of the buffer; or a buffer the      *)
(* codec cannot identify                                                   *)
Buffers ==
    {[load |-> "ok", size_bytes |-> n, decodable |-> TRUE,
      pil_format |-> Some(f), magic |-> MagicOf(f), width |-> w,
      height |-> h, mode |-> "RGB"] :
        n \in BufferSizes, f \in CodecFormats, w \in Widths, h \in Heights}
    \cup
    {[load |-> "ok", size_bytes |-> n, decodable |-> TRUE,
      pil_format |-> None, magic |-> MagicOf(f), width |-> w,
      height |-> h, mode |-> "RGB"] :
        n \in BufferSizes, f \in CodecFormats, w \in Widths, h \in Heights}
    \cup {NotAnImage(n) : n \in BufferSizes}

InitNormalizer ==
    /\ config = DefaultConfig
    /\ req \in {Some([tool |-> "validate_and_process_image",
                      image_data |-> b,
                      max_size_mb |-> config.max_image_size_mb]) :
                   b \in Buffers}
    /\ pc = "size"
    /\ NoTool
    /\ hist = [opened |-> FALSE, format_ok |-> None]

NormalizerIdle ==
    <<config, req, provider, analysis, api_key, client, i, results,
      successful, failed, plan, partial, kind, attempts, callres>>

(* validate_image_size(image_data, max_size_mb) *)
NormalizerCheckSize ==
    /\ pc = "size"
    /\ LET r == validate_image_size(req[1].image_data, req[1].max_size_mb)
       IN  IF r.ok THEN pc' = "open" /\ UNCHANGED output
           ELSE pc' = "done" /\ output' = Some(r)
    /\ UNCHANGED <<NormalizerIdle, image, metadata, hist>>

(* image = Image.open(io.BytesIO(image_data)), and the format read from    *)
(* the first bytes when the codec gives none                               *)
NormalizerOpen ==
    /\ pc = "open"
    /\ LET data == req[1].image_data
           format == IF data.pil_format = None THEN SniffFormat(data)
                     ELSE data.pil_format[1]
       IN  IF ~data.decodable
           THEN /\ output' =
                     Some(Raise("ImageValidationError",
                                <<"Failed to process image: ",
                                  "cannot identify image file">>))
                /\ pc' = "done"
                /\ UNCHANGED image
           ELSE /\ image' = Some([format |-> Some(format),
                                  width |-> data.width,
                                  height |-> data.height, mode |-> data.mode,
                                  has_getexif |-> format \in {"JPEG", "PNG"}])
                /\ pc' = "format"
                /\ UNCHANGED output
    /\ hist' = [hist EXCEPT !.opened = TRUE]
    /\ UNCHANGED <<NormalizerIdle, metadata>>

(* validate_image_format(image), then the metadata dict *)
NormalizerCheckFormat ==
    /\ pc = "format"
    /\ LET r == validate_image_format(image[1].format[1]) IN
       /\ hist' = [hist EXCEPT !.format_ok = Some(r.ok)]
       /\ IF ~r.ok
          THEN output' = Some(r) /\ pc' = "done" /\ UNCHANGED metadata
          ELSE /\ metadata' =
                    Some([width |-> image[1].width,
                          height |-> image[1].height,
                          format |-> image[1].format[1],
                          mode |-> image[1].mode,
                          size_bytes |-> req[1].image_data.size_bytes,
                          resized |-> FALSE, original_size |-> << >>])
               /\ pc' = "resize"
               /\ UNCHANGED output
    /\ UNCHANGED <<NormalizerIdle, image>>

(* the resize of an image with a side above max_dimension, and the return *)
NormalizerResize ==
    /\ pc = "resize"
    /\ LET im == image[1]
           big == im.width > MaxDimension \/ im.height > MaxDimension
           new == ResizedSize(im.width, im.height)
           resized == [format |-> None, width |-> new[1], height |-> new[2],
                       mode |-> im.mode, has_getexif |-> FALSE]
           md == [metadata[1] EXCEPT
                     !.resized = TRUE,
                     !.original_size = <<im.width, im.height>>,
                     !.width = new[1], !.height = new[2]]
       IN  IF ~big
           THEN /\ output' = Some(Ok([image |-> im, metadata |-> metadata[1]]))
                /\ UNCHANGED <<image, metadata>>
           ELSE IF new[1] = 0 \/ new[2] = 0
           THEN /\ output' =
                     Some(Raise("ImageValidationError",
                                <<"Failed to process image: ",
                                  "height and width must be > 0">>))
                /\ UNCHANGED <<image, metadata>>
           ELSE /\ image' = Some(resized)
                /\ metadata' = Some(md)
                /\ output' = Some(Ok([image |-> resized, metadata |-> md]))
    /\ pc' = "done"
    /\ UNCHANGED <<NormalizerIdle, hist>>

NextNormalizer ==
    \/ NormalizerCheckSize
    \/ NormalizerOpen
    \/ NormalizerCheckFormat
    \/ NormalizerResize

SpecNormalizer == InitNormalizer /\ [][NextNormalizer]_vars

---------------------------------------------------------------------------
(* The response coercion on its own: what extract_text and detect_objects  *)
(* do with the content _make_api_call returned, one step for json.loads    *)
(* and one for the branch taken after it.  Here kind is the method (text:  *)
(* extract_text, objects: detect_objects), callres the content returned,   *)
(* partial holds the records the method returns, and hist the value        *)
(* json.loads gave and the tier that produced the records.                 *)

MaxItems == 11

RECURSIVE Repeat(_, _)
Repeat(s, n) == IF n = 0 THEN << >> ELSE s \o Repeat(s, n - 1)

ProseLeads ==
    {<< >>,
     <<"I", " ", "c", "a", "n", " ", "s", "e", "e", " ">>,
     <<"i", "n", " ", "t", "h", "i", "s", " ", "i", "m", "a", "g", "e", " ">>}

ProseItems ==
    {<<"a", " ", "d", "o", "g">>, <<"o", "x">>,
     <<"T", "h", "e", " ", " ", "c", "a", "t">>}

ProseSeparators == {<<",", " ">>, <<";">>}

ProseResponses ==
    {lead \o Repeat(item \o sep, n) :
        lead \in ProseLeads, item \in ProseItems, sep \in ProseSeparators,
        n \in 0..MaxItems} \ {<< >>}

JsonResponses ==
    {JsonRecords, JsonStrings, JsonNoConfidence, JsonEmptyList, JsonObject,
     JsonOtherItems, JsonOverConfidence, JsonMixedConfidence}

(* The prose answer "I can see a dog, a ball, and a tree." *)
DogBallTree ==
    <<"I", " ", "c", "a", "n", " ", "s", "e", "e", " ", "a", " ", "d", "o",
      "g", ",", " ", "a", " ", "b", "a", "l", "l", ",", " ", "a", "n", "d",
      " ", "a", " ", "t", "r", "e", "e", ".">>

InitCoercion ==
    /\ config = DefaultConfig
    /\ req = None
    /\ pc = "call_return"
    /\ provider = None
    /\ analysis = None
    /\ api_key = None
    /\ client = None
    /\ i = 0
    /\ results = << >>
    /\ successful = 0
    /\ failed = 0
    /\ image = None
    /\ metadata = None
    /\ plan = << >>
    /\ partial = ImageAnalysis
    /\ kind \in {"text", "objects"}
    /\ attempts = << >>
    /\ callres \in {Some(Ok(r)) :
                       r \in JsonResponses \cup ProseResponses \cup {DogBallTree}}
    /\ output = None
    /\ hist = [parsed |-> None, tier |-> ""]

CoercionIdle ==
    <<config, req, provider, analysis, api_key, client, i, results,
      successful, failed, image, metadata, plan, kind, attempts, callres>>

(* text_data = json.loads(response) / objects_data = json.loads(response) *)
CoerceParse ==
    /\ pc = "call_return"
    /\ hist' = [hist EXCEPT !.parsed = Some(json_loads(callres[1].val))]
    /\ pc' = "parsed"
    /\ UNCHANGED <<CoercionIdle, partial, output>>

(* the parsed value is a list: one record per usable item, unless a       *)
(* constructor raises                                                      *)
CoerceStructured ==
    /\ pc = "parsed"
    /\ hist.parsed[1].ok
    /\ hist.parsed[1].val.is_list
    /\ LET made == IF kind = "text"
                   THEN TextRecords(hist.parsed[1].val.items)
                   ELSE ObjectRecords(hist.parsed[1].val.items)
       IN  IF ~made.ok THEN output' = Some(made) /\ UNCHANGED partial
           ELSE /\ partial' = IF kind = "text"
                              THEN [partial EXCEPT !.text = made.val]
                              ELSE [partial EXCEPT !.objects = made.val]
                /\ UNCHANGED output
    /\ hist' = [hist EXCEPT !.tier = "structured"]
    /\ pc' = "done"
    /\ UNCHANGED CoercionIdle

(* the content is no JSON, or its value is no list *)
CoerceFallback ==
    /\ pc = "parsed"
    /\ ~(hist.parsed[1].ok /\ hist.parsed[1].val.is_list)
    /\ partial' =
          IF kind = "text"
          THEN [partial EXCEPT
                   !.text = <<[content |-> callres[1].val, confidence |-> 8]>>]
          ELSE [partial EXCEPT
                   !.objects = _extract_objects_from_text(callres[1].val)]
    /\ hist' = [hist EXCEPT !.tier = "fallback"]
    /\ pc' = "done"
    /\ UNCHANGED <<CoercionIdle, output>>

NextCoercion ==
    \/ CoerceParse
    \/ CoerceStructured
    \/ CoerceFallback

SpecCoercion == InitCoercion /\ [][NextCoercion]_vars

---------------------------------------------------------------------------
(* The provider client on its own: process_image has resolved its          *)
(* arguments, loaded and normalized the source, and is about to create the *)
(* client and call it (server.py:229-236).  The steps are those of the     *)
(* tools; the provider answers with any of ClientResponses, among them     *)
(* JSON lists with a confidence outside [0, 1].                            *)

ClientResponses ==
    {JsonRecords, JsonStrings, JsonOverConfidence, JsonMixedConfidence}

ClientSource == "/img/ok.png"

InitClient ==
    /\ config = [DefaultConfig EXCEPT !.openai_api_key = Some("sk-config")]
    /\ req \in {Some([tool |-> "process_image", entry |-> "process_image",
                       sources |-> <<ClientSource>>,
                       api_provider |-> None, api_key |-> None,
                       analysis_type |-> Some(a), prompt |-> pr]) :
                   a \in AnalysisTypeValues, pr \in PromptArgs}
    /\ pc = "dispatch"
    /\ provider = Some("openai")
    /\ analysis = req[1].analysis_type
    /\ api_key = Some("sk-config")
    /\ client = None
    /\ i = 1
    /\ results = << >>
    /\ successful = 0
    /\ failed = 0
    /\ LET r == validate_and_process_image(SourceInfo(ClientSource),
                                           config.max_image_size_mb)
       IN  image = Some(r.val.image) /\ metadata = Some(r.val.metadata)
    /\ plan = << >>
    /\ partial = ImageAnalysis
    /\ kind = ""
    /\ attempts = << >>
    /\ callres = None
    /\ output = None
    /\ hist = [loaded |-> <<1>>, remote_any |-> FALSE, item |-> NoItem]

ClientAttemptOk == AttemptReturns(ClientResponses)

NextClient ==
    \/ Dispatch
    \/ BeginCall
    \/ AnalyzeReturn
    \/ ClientAttemptOk
    \/ AttemptFail
    \/ CallReturn

SpecClient == InitClient /\ [][NextClient]_vars

---------------------------------------------------------------------------
(* The credential check on its own: the supported-apis resource is read,   *)
(* then a tool is called and resolves its provider, analysis kind and      *)
(* credential.  The configured keys include an empty and a blank one.      *)
(* Here hist holds what the resource returned: the status of each          *)
(* provider.                                                               *)

CredentialConfigs ==
    [default_api_provider : {"openai", "anthropic"},
     max_image_size_mb : {ConfigMaxMB},
     request_timeout : {30},
     max_retries : {MaxAttempts},
     openai_api_key : {None, Some(""), Some(" "), Some("sk-config")},
     anthropic_api_key : {None},
     google_credentials_path : {None},
     azure_api_key : {None}]

InitCredential ==
    /\ config \in CredentialConfigs
    /\ req = None
    /\ pc = "resource"
    /\ NoTool
    /\ hist = [api_info |-> None]

(* get_supported_apis: the status of every provider *)
get_supported_apis ==
    LET supported == get_supported_providers(config) IN
    [p \in APIProviderValues |->
        IF \E k \in 1..Len(supported) : supported[k] = p
        THEN "available" ELSE "no_api_key"]

GetSupportedApis ==
    /\ pc = "resource"
    /\ hist' = [hist EXCEPT !.api_info = Some(get_supported_apis)]
    /\ pc' = "idle"
    /\ UNCHANGED <<config, req, provider, analysis, api_key, client, i,
                   results, successful, failed, ItemVars, output>>

NextCredential ==
    \/ GetSupportedApis
    \/ CallProcessImage
    \/ CallAnalyzeImageBatch
    \/ ProcessImageResolve
    \/ BatchResolve

SpecCredential == InitCredential /\ [][NextCredential]_vars

---------------------------------------------------------------------------
(* Properties *)

Done == pc = "done"

IsBatch == req # None /\ Tool = "analyze_image_batch"

IsSingle == req # None /\ Tool = "process_image"

BatchDone == IsBatch /\ Done

SingleDone == IsSingle /\ Done

RequestedProvider ==
    OrElse(req[1].api_provider, config.default_api_provider)

ConfiguredKey(p) ==
    CASE p = "openai" -> config.openai_api_key
      [] p = "anthropic" -> config.anthropic_api_key
      [] p = "google" -> config.google_credentials_path
      [] p = "azure" -> config.azure_api_key
      [] OTHER -> None

CredentialSupplied ==
    Truthy(req[1].api_key) \/ Truthy(ConfiguredKey(RequestedProvider))

RequestedAnalysisIsKnown ==
    OrElse(req[1].analysis_type, "comprehensive") \in AnalysisTypeValues

Count(seq, P(_)) == Cardinality({k \in 1..Len(seq) : P(seq[k])})

IsSuccess(r) == r.success

IsFailure(r) == ~r.success

(* Every envelope the tool call has produced so far *)
Envelopes ==
    {results[k] : k \in 1..Len(results)}
    \cup (IF output # None /\ IsSingle /\ ~output[1].raised
          THEN {output[1].result} ELSE {})
    \cup (IF output # None /\ IsBatch
          THEN {output[1].results[k] : k \in 1..Len(output[1].results)}
          ELSE {})

(* C1: the batch result holds one envelope per source, results[k] being    *)
(* the envelope made for sources[k], whatever fails.                       *)
C1_ResultsAlignedWithSources ==
    BatchDone =>
        /\ Len(output[1].results) = N
        /\ \A k \in 1..Len(output[1].results) :
              output[1].results[k].item = [index |-> k,
                                           source |-> req[1].sources[k]]

(* C2: successful + failed = total_images = number of sources, successful  *)
(* counts the success envelopes of results and failed the failure ones.    *)
C2_CountsMatchResults ==
    BatchDone =>
        /\ output[1].total_images = N
        /\ output[1].successful + output[1].failed = N
        /\ output[1].successful = Count(output[1].results, IsSuccess)
        /\ output[1].failed = Count(output[1].results, IsFailure)

(* C3: in every envelope, success holds iff analysis is present iff error  *)
(* is absent, and a failure envelope carries a non-empty error message.    *)
C3_EnvelopeWellFormed ==
    \A r \in Envelopes :
        /\ r.success <=> r.analysis # None
        /\ r.success <=> r.error = None
        /\ ~r.success => (r.error # None /\ r.error[1] # << >>)

C3_Witness ==
    /\ BatchDone
    /\ \E a, b \in 1..Len(output[1].results) :
          /\ output[1].results[a].success
          /\ ~output[1].results[b].success
    /\ \E r \in Envelopes : r.error # None /\ r.error[1][1] = "OpenAI API error: "

(* C4: process_image returns one envelope and never raises.                *)
C4_ProcessImageNeverRaises ==
    SingleDone => ~output[1].raised

(* C5: with no credential from the caller or the configuration, no source  *)
(* is loaded and no remote call is made; process_image ends in a failure,  *)
(* with the no-API-key error when the provider and the analysis kind are   *)
(* known names, and the batch ends with successful = 0 and failed = the    *)
(* number of sources.                                                      *)
C5_NoCredentialFailsFast ==
    (req # None /\ ~CredentialSupplied) =>
        /\ hist.loaded = << >>
        /\ ~hist.remote_any
        /\ pc \in {"resolve", "done"}
        /\ SingleDone =>
              /\ output[1].raised \/ ~output[1].result.success
              /\ (RequestedProvider \in APIProviderValues
                     /\ RequestedAnalysisIsKnown) =>
                    /\ ~output[1].raised
                    /\ output[1].result.error =
                          Some(<<"Unexpected error: ",
                                 "No API key available for provider: ",
                                 RequestedProvider>>)
        /\ BatchDone =>
              /\ output[1].successful = 0
              /\ output[1].failed = N
              /\ output[1].total_images = N

C5_Witness ==
    /\ BatchDone
    /\ ~CredentialSupplied
    /\ RequestedProvider = "anthropic"
    /\ config.openai_api_key # None
    /\ RequestedAnalysisIsKnown
    /\ N = 2
    /\ output[1].failed = 2

(* C6: a missing credential is the only failure that ends a batch without  *)
(* processing its items: with a credential available the batch returns one *)
(* envelope per source.                                                    *)
C6_OnlyMissingCredentialShortCircuits ==
    (BatchDone /\ CredentialSupplied) => Len(output[1].results) = N

(* C7: in a batch that passed the up-front resolution, the sources are     *)
(* processed once each, in input order, and a failed item does not stop    *)
(* the items after it.                                                     *)
C7_EverySourceProcessedInOrder ==
    (IsBatch /\ provider # None) =>
        /\ \A k \in 1..Len(hist.loaded) : hist.loaded[k] = k
        /\ Len(results) = i - 1
        /\ \A k \in 1..Len(results) : results[k].item.index = k
        /\ pc = "load" => Len(hist.loaded) = i - 1
        /\ pc \in {"normalize", "dispatch", "analyze", "attempt",
                   "call_return"} => Len(hist.loaded) = i
        /\ pc \in {"return", "done"} =>
              (Len(hist.loaded) = N /\ Len(results) = N)

C7_Witness ==
    /\ BatchDone
    /\ N = 2
    /\ hist.loaded = <<1, 2>>
    /\ ~output[1].results[1].success
    /\ output[1].results[1].error[1][1] = "OpenAI API error: "
    /\ output[1].results[2].success

(* C8: one provider call makes at most 3 remote attempts, none after a     *)
(* successful one, and ends with the response of the first successful      *)
(* attempt or, after 3 failures, with the error of the third attempt.      *)
C8_RetryOutcome ==
    /\ Len(attempts) <= 3
    /\ \A k \in 1..(Len(attempts) - 1) : ~attempts[k].ok
    /\ pc = "attempt" => Len(attempts) < 3
    /\ pc = "call_return" =>
          /\ Len(attempts) >= 1
          /\ callres = Some(attempts[Len(attempts)])
          /\ callres[1].ok \/ (Len(attempts) = 3 /\ callres[1] = attempts[3])
          /\ ~callres[1].ok => callres[1].val = "ValueError"

C8_Witness ==
    /\ pc = "call_return"
    /\ Len(attempts) = 3
    /\ ~callres[1].ok
    /\ attempts[1].err # attempts[3].err
    /\ attempts[2].err # attempts[3].err

(* C9: a failing provider call makes as many remote attempts as the         *)
(* max_retries the client was constructed with.                            *)
C9_AttemptsEqualConfiguredCeiling ==
    (pc = "call_return" /\ ~callres[1].ok) =>
        Len(attempts) = client[1].max_retries

OutsideProviderLimits(md) ==
    \/ md.format \notin supported_formats
    \/ md.width * md.height * 3 > max_image_size_mb * MB

(* C10: an image whose format as detected at normalization is outside the  *)
(* provider's supported formats, or whose estimated size exceeds the       *)
(* provider's maximum, resized or not, gets no remote call.                *)
C10_ProviderGateBeforeRemoteCall ==
    (metadata # None /\ OutsideProviderLimits(metadata[1])) =>
        ~hist.item.remote

Comprehensive ==
    /\ req # None
    /\ analysis = Some("comprehensive")
    /\ ~Truthy(req[1].prompt)

HasAllThreeOutputs(an) ==
    /\ an.description # None
    /\ an.text # << >>
    /\ an.objects # << >>

(* C11: a comprehensive analysis makes its provider calls one kind at a    *)
(* time, description, then text, then objects; a success envelope comes     *)
(* after all three calls and holds the outputs of all three; a failure      *)
(* envelope holds no analysis, so no envelope is filled from only some of   *)
(* the calls.                                                              *)
C11_ComprehensiveAllOrNothing ==
    Comprehensive =>
        /\ pc \in {"attempt", "call_return"} =>
              /\ hist.item.calls \in 1..3
              /\ kind = <<"description", "text", "objects">>[hist.item.calls]
              /\ Len(plan) = 3 - hist.item.calls
        /\ pc = "analyze" =>
              /\ partial.description # None <=> hist.item.calls >= 1
              /\ partial.text # << >> <=> hist.item.calls >= 2
              /\ partial.objects # << >> <=> hist.item.calls >= 3
              /\ plan = << >> <=> hist.item.calls = 3
        /\ \A r \in Envelopes :
              /\ r.success => HasAllThreeOutputs(r.analysis[1])
              /\ ~r.success => r.analysis = None
        /\ (SingleDone /\ ~output[1].raised /\ output[1].result.success) =>
              hist.item.calls = 3

C11_Witness ==
    /\ SingleDone
    /\ Comprehensive
    /\ ~output[1].raised
    /\ ~output[1].result.success
    /\ output[1].result.analysis = None
    /\ hist.item.calls = 3

CustomPrompt == req # None /\ Truthy(req[1].prompt) /\ provider # None

(* C12: a request with a custom prompt makes at most one provider call, of *)
(* the custom kind, exactly one once the image has passed the client's     *)
(* checks; a success envelope comes after that one call and holds the raw   *)
(* response as its description, with empty objects and text lists.         *)
C12_CustomPromptOneCall ==
    CustomPrompt =>
        /\ hist.item.calls <= 1
        /\ pc \notin {"analyze"}
        /\ pc \in {"attempt", "call_return"} =>
              (hist.item.calls = 1 /\ kind = "custom")
        /\ \A r \in Envelopes :
              r.success =>
                  /\ r.analysis[1].description \in {Some(c) : c \in Responses}
                  /\ r.analysis[1].objects = << >>
                  /\ r.analysis[1].text = << >>
        /\ (SingleDone /\ ~output[1].raised /\ output[1].result.success) =>
              hist.item.calls = 1

C12_Witness ==
    /\ SingleDone
    /\ CustomPrompt
    /\ req[1].analysis_type = Some("objects")
    /\ ~output[1].raised
    /\ output[1].result.success
    /\ hist.item.calls = 1

(* The Source Resolver *)

ResolverSource == req[1].source

HasSchemeAndNetloc(s) == UrlScheme(s) # << >> /\ UrlNetloc(s) # << >>

StrictBase64NonEmpty(s) == b64decode(s).ok /\ b64decode(s).val > 0

C14_InlineIffImagePrefixOrWholeBase64 ==
    hist.is_base64 # None =>
        (hist.is_base64[1] <=>
            (StartsWith(ResolverSource, DataImageSlash)
                \/ StrictBase64NonEmpty(ResolverSource)))

(* C15: a file-path source that contains ../../etc/passwd, relative or     *)
(* behind an absolute directory prefix, fails with ImageLoadError and no   *)
(* file is read.                                                           *)
C15_TraversalNeverReadsAFile ==
    (hist.branch = "file" /\ Contains(ResolverSource, Traversal)) =>
        /\ "read_bytes" \notin {hist.io[k] : k \in 1..Len(hist.io)}
        /\ pc \in {"loaded", "done"} =>
              (~output[1].ok /\ output[1].val = "ImageLoadError")

(* C16: in the base64 branch, a payload that is not strict base64 and a    *)
(* payload that is empty once the data-URL prefix is stripped both fail    *)
(* in load_image_data with ImageLoadError, and normalization is not        *)
(* attempted.                                                              *)
C16_BadInlinePayloadFailsInResolver ==
    (/\ hist.branch = "base64"
     /\ \/ ~b64decode(Base64Payload(ResolverSource)).ok
        \/ Base64Payload(ResolverSource) = << >>) =>
        /\ ~hist.normalized
        /\ pc \in {"loaded", "done"} =>
              (~output[1].ok /\ output[1].val = "ImageLoadError")

(* The Normalizer *)

Buffer == req[1].image_data

LargerSide(w, h) == IF w >= h THEN w ELSE h

SmallerSide(w, h) == IF w >= h THEN h ELSE w

(* C17: a buffer of more than max_size_mb megabytes fails with the size    *)
(* validation error and Image.open is never called on it; a buffer of      *)
(* exactly max_size_mb megabytes passes the size check.                    *)
C17_OversizeFailsBeforeDecode ==
    /\ Buffer.size_bytes > req[1].max_size_mb * MB =>
          /\ ~hist.opened
          /\ pc \in {"size", "done"}
          /\ pc = "done" =>
                /\ ~output[1].ok
                /\ output[1].val = "ImageValidationError"
                /\ output[1].err[1] = "Image size "
    /\ (Buffer.size_bytes <= req[1].max_size_mb * MB /\ pc = "done") =>
          hist.opened

C17_Witness ==
    /\ pc = "done"
    /\ Buffer.size_bytes = req[1].max_size_mb * MB + 1
    /\ Buffer.decodable
    /\ ~hist.opened
    /\ output[1].val = "ImageValidationError"

(* C18: a decoded bitmap of width w >= 1 and height h >= 1 whose larger    *)
(* side exceeds 2048 is normalized successfully, with resized = true,      *)
(* original_size = (w, h), a larger output side of exactly 2048 and a      *)
(* smaller output side of at least 1 that is the aspect-preserving value   *)
(* within rounding.                                                        *)
C18_ResizeToExactly2048 ==
    (/\ pc = "done"
     /\ hist.format_ok = Some(TRUE)
     /\ Buffer.width >= 1
     /\ Buffer.height >= 1
     /\ LargerSide(Buffer.width, Buffer.height) > MaxDimension) =>
        /\ output[1].ok
        /\ LET md == output[1].val.metadata
               large == LargerSide(Buffer.width, Buffer.height)
               small == SmallerSide(Buffer.width, Buffer.height)
               scaled == SmallerSide(md.width, md.height) * large
           IN  /\ md.resized
               /\ md.original_size = <<Buffer.width, Buffer.height>>
               /\ LargerSide(md.width, md.height) = MaxDimension
               /\ SmallerSide(md.width, md.height) >= 1
               /\ scaled > small * MaxDimension - large
               /\ scaled < small * MaxDimension + large

SixFormats == {"JPEG", "PNG", "WEBP", "GIF", "BMP", "TIFF"}

(* C19: an image reaches the format check with the format the codec       *)
(* reports, or the sniffed one, and is rejected there if and only if that  *)
(* format is outside JPEG, PNG, WEBP, GIF, BMP, TIFF.                      *)
C19_FormatRejectedIffOutsideSix ==
    hist.format_ok # None =>
        /\ hist.format_ok[1] <=> image[1].format[1] \in SixFormats
        /\ ~hist.format_ok[1] =>
              (pc = "done" /\ output[1].val = "ImageValidationError")

(* The response coercion *)

CoercedRecords == IF kind = "text" THEN partial.text ELSE partial.objects

(* C20: extract_text and detect_objects coerce alike: when the content is  *)
(* no JSON or its value is no list, the records come from the heuristic    *)
(* extractor, each with confidence 0.7 and at most 10 of them; a record    *)
(* with confidence 0.8 comes from the structured tier only.                *)
C20_FallbackIsHeuristicForBoth ==
    pc = "done" =>
        /\ hist.tier = "fallback" =>
              /\ Len(CoercedRecords) <= 10
              /\ \A k \in 1..Len(CoercedRecords) :
                    CoercedRecords[k].confidence = 7
        /\ (\E k \in 1..Len(CoercedRecords) :
               CoercedRecords[k].confidence = 8) => hist.tier = "structured"

Named(name) == [name |-> name, confidence |-> 7]

(* C21: for the response "I can see a dog, a ball, and a tree." object     *)
(* detection returns exactly three records, named dog, ball and tree in    *)
(* that order, each with confidence 0.7.                                   *)
C21_DogBallTreeExample ==
    (pc = "done" /\ kind = "objects" /\ callres[1].val = DogBallTree) =>
        partial.objects = <<Named(<<"d", "o", "g">>),
                            Named(<<"b", "a", "l", "l">>),
                            Named(<<"t", "r", "e", "e">>)>>

ErrOf(r) == IF r.ok THEN {} ELSE {r.err}

(* The messages of the failures the stages of process_image can end in for *)
(* the request in progress: provider selection, analysis kind, credential  *)
(* resolution, source load, normalization, client creation, provider       *)
(* validation, encoding and remote call.                                   *)
StageFailures ==
    LET source == Text(req[1].sources[1])
        p == APIProvider(RequestedProvider)
        a == AnalysisType(OrElse(req[1].analysis_type, "comprehensive"))
        AfterNormalize(n) ==
            IF ~n.ok THEN {n.err}
            ELSE ErrOf(validate_image(n.val.image))
                 \cup ErrOf(image_to_base64(n.val.image))
        AfterLoad(l) ==
            IF ~l.ok THEN {l.err}
            ELSE AfterNormalize(
                     validate_and_process_image(l.val.data,
                                                config.max_image_size_mb))
    IN  ErrOf(p) \cup ErrOf(a)
        \cup {<<"No API key available for provider: ", RequestedProvider>>}
        \cup ErrOf(create_api_client(RequestedProvider, "", config))
        \cup UNION {AfterLoad(load_image_data(source, o)) : o \in UrlOutcomes}
        \cup UNION {ErrOf(AttemptError(e)) : e \in AttemptErrors}

(* C22: when process_image returns a failure envelope, its error field is  *)
(* the message of the failure that occurred, with nothing put before or     *)
(* after it.                                                               *)
C22_ErrorIsFailureMessageVerbatim ==
    (SingleDone /\ ~output[1].raised /\ ~output[1].result.success) =>
        output[1].result.error[1] \in StageFailures

InBatchLoop == IsBatch /\ provider # None

(* One step of the batch, seen from the counters *)
BatchCounting ==
    InBatchLoop' =>
        LET appended == Len(results') - Len(results)
            succeeded == successful' - successful
            failures == failed' - failed
        IN  /\ successful' + failed' = Len(results')
            /\ successful' = Count(results', IsSuccess)
            /\ failed' = Count(results', IsFailure)
            /\ Len(results') = i' - 1
            /\ appended \in {0, 1}
            /\ succeeded \in {0, 1}
            /\ failures \in {0, 1}
            /\ succeeded + failures = appended
            /\ i' - i = appended
            /\ appended = 1 =>
                  (succeeded = 1 <=> results'[Len(results')].success)

(* C23: at every point of the batch loop successful + failed equals the    *)
(* number of envelopes appended to results, which equals the number of      *)
(* sources handled; handling one item appends one envelope and adds one to  *)
(* exactly one counter, on the success path and on the exception path.      *)
C23_CountersTrackResults == [][BatchCounting]_vars

C23_Witness ==
    /\ BatchDone
    /\ N = 2
    /\ successful = 1
    /\ failed = 1
    /\ ~results[1].success
    /\ results[1].error[1][1] = "Failed to load image from file: "
    /\ results[2].success

(* The item in progress ends in this step: its envelope is appended to the *)
(* batch results, or process_image returns.                                *)
ItemEnds == Len(results') > Len(results) \/ (output = None /\ output' # None)

CurrentItemLoaded ==
    hist.loaded # << >> /\ hist.loaded[Len(hist.loaded)] = i

(* Where each stage of one image stands *)
StagesInOrder ==
    /\ pc = "load" => (image = None /\ metadata = None)
    /\ pc = "normalize" =>
          (CurrentItemLoaded /\ image # None /\ metadata = None)
    /\ pc = "dispatch" => (CurrentItemLoaded /\ metadata # None)
    /\ pc \in {"load", "normalize", "dispatch"} =>
          (hist.item.calls = 0 /\ ~hist.item.remote /\ attempts = << >>)
    /\ pc \in {"analyze", "attempt", "call_return"} =>
          /\ CurrentItemLoaded
          /\ metadata # None
          /\ hist.item.validated >= 1
          /\ validate_image(image[1]).ok
    /\ pc \in {"attempt", "call_return"} => hist.item.calls >= 1
    /\ hist.item.remote => hist.item.calls >= 1

StageStep ==
    /\ StagesInOrder'
    /\ hist'.item.calls > hist.item.calls =>
          /\ pc \in {"dispatch", "analyze"}
          /\ pc' = "attempt"
          /\ metadata # None
          /\ hist'.item.validated > hist.item.validated
    /\ (hist'.item.remote /\ ~hist.item.remote) => pc = "attempt"
    /\ (pc \in {"load", "normalize", "dispatch"} /\ ItemEnds) =>
          /\ hist.item.calls = 0
          /\ ~hist.item.remote
          /\ hist'.item.calls = 0
          /\ ~hist'.item.remote
          /\ ~(IF IsBatch THEN results'[Len(results')].success
               ELSE (~output'[1].raised /\ output'[1].result.success))

(* C24: for one image the stages run in the order load, normalize,         *)
(* provider validation, remote call: a provider call begins only for an    *)
(* image that was loaded, normalized and validated by the client, and an   *)
(* item that fails at load, normalization or validation ends in a failure  *)
(* envelope without any remote call.                                       *)
C24_StagesInOrder == [][StageStep]_vars

C24_Witness ==
    /\ BatchDone
    /\ Len(results) = 2
    /\ ~results[1].success
    /\ results[1].error[1][1] = "Image size "
    /\ results[2].success
    /\ hist.remote_any

(* One step, seen from the retry loop of _make_api_call *)
RetryScope ==
    /\ pc' \in {"attempt", "call_return"} =>
          /\ hist'.item.encoded = hist'.item.calls
          /\ hist'.item.validated =
                hist'.item.calls + (IF Truthy(req'[1].prompt) THEN 0 ELSE 1)
    /\ \A j, k \in 1..Len(hist'.loaded) :
          hist'.loaded[j] = hist'.loaded[k] => j = k
    /\ (pc # "attempt" /\ pc' = "attempt") =>
          /\ hist'.item.validated = hist.item.validated + 1
          /\ hist'.item.encoded = hist.item.encoded + 1
          /\ attempts' = << >>
    /\ pc = "attempt" =>
          /\ hist'.item.validated = hist.item.validated
          /\ hist'.item.encoded = hist.item.encoded
          /\ hist'.item.calls = hist.item.calls
          /\ hist'.loaded = hist.loaded
          /\ image' = image
          /\ metadata' = metadata
          /\ Len(attempts') = Len(attempts) + 1
          /\ pc' = "attempt" => ~attempts'[Len(attempts')].ok
    /\ (pc \in {"load", "normalize", "dispatch"} /\ ItemEnds) =>
          /\ attempts = << >>
          /\ attempts' = << >>
          /\ ~hist.item.remote
          /\ hist'.item.validated <= 1
          /\ hist'.item.encoded = 0
          /\ pc' \in {"load", "return", "done"}
          /\ pc' = "load" => i' = i + 1

(* C25: the retry loop wraps the remote call only: the client validates    *)
(* and encodes the bitmap once before the first attempt of a call and not  *)
(* again on a retry, and an item that fails at load, normalization or      *)
(* validation ends there: no stage runs a second time for it and no remote *)
(* attempt is made.                                                        *)
C25_RetryWrapsRemoteCallOnly == [][RetryScope]_vars

C25_Witness ==
    /\ pc = "call_return"
    /\ kind = "text"
    /\ Len(attempts) = 3
    /\ callres[1].ok
    /\ hist.item.calls = 2
    /\ hist.item.encoded = 2
    /\ hist.item.validated = 3

HasProviderContent(an) ==
    an.description # None \/ an.objects # << >> \/ an.text # << >>

(* C26: a success envelope is produced only after a remote call returned a *)
(* response, whatever accepted analysis_type was asked for: process_image  *)
(* succeeds only if a remote attempt was made for the image, and every     *)
(* success envelope holds a description, objects or text.                  *)
C26_SuccessNeedsRemoteResponse ==
    /\ (SingleDone /\ ~output[1].raised /\ output[1].result.success) =>
          (hist.item.calls >= 1 /\ hist.item.remote)
    /\ \A r \in Envelopes :
          r.success => HasProviderContent(r.analysis[1])

(* The text is_base64_image decodes: what follows the first comma, or the  *)
(* whole source                                                            *)
ClassifierPayload(s) == IF Find(s, ",") # 0 THEN AfterFirstComma(s) ELSE s

AcceptedOnPayload(s) ==
    /\ ~StartsWith(s, DataImageSlash)
    /\ StrictBase64NonEmpty(ClassifierPayload(s))

(* C27: a source that is_base64_image accepts because its payload is valid *)
(* non-empty strict base64 is decoded by load_image_from_base64 to the     *)
(* bytes of that same payload: the two strip the same prefix and the       *)
(* loader does not fail.                                                   *)
C27_LoaderDecodesClassifiedPayload ==
    (/\ pc \in {"loaded", "done"}
     /\ hist.branch = "base64"
     /\ AcceptedOnPayload(ResolverSource)) =>
        LET payload == ClassifierPayload(ResolverSource) IN
        /\ output[1].ok
        /\ Base64Payload(ResolverSource) = payload
        /\ output[1].val.data =
              (IF payload = PngPayload THEN PngBytes
               ELSE NotAnImage(b64decode(payload).val))

(* The provider client *)

OutOfRange(it) == "confidence" \in it.keys /\ (it.confidence < 0 \/ it.confidence > 10)

(* The content r, given in answer to a call of kind k, is a JSON list with *)
(* a record the method uses whose confidence is outside [0, 1]             *)
HasOutOfRangeRecord(r, k) ==
    /\ json_loads(r).ok
    /\ json_loads(r).val.is_list
    /\ \E n \in 1..Len(json_loads(r).val.items) :
          LET it == json_loads(r).val.items[n] IN
          /\ it.is_dict
          /\ (IF k = "text" THEN "content" ELSE "name") \in it.keys
          /\ OutOfRange(it)

ConfidencesInRange(an) ==
    /\ \A n \in 1..Len(an.objects) : an.objects[n].confidence \in 0..10
    /\ \A n \in 1..Len(an.text) : an.text[n].confidence \in 0..10

ConfidenceStep ==
    /\ \A n \in 1..Len(partial'.objects) :
          partial'.objects[n].confidence \in 0..10
    /\ \A n \in 1..Len(partial'.text) : partial'.text[n].confidence \in 0..10
    /\ (output' # None /\ output'[1].result.success) =>
          ConfidencesInRange(output'[1].result.analysis[1])
    /\ (/\ pc = "call_return"
        /\ callres[1].ok
        /\ kind \in {"text", "objects"}
        /\ HasOutOfRangeRecord(callres[1].val, kind)) =>
          /\ pc' = "done"
          /\ ~output'[1].result.success
          /\ output'[1].result.analysis = None
          /\ output'[1].result.error[1][1] \in
                {"1 validation error for DetectedObject",
                 "1 validation error for ExtractedText"}

(* C28: every DetectedObject and ExtractedText of an envelope has a        *)
(* confidence in [0, 1]; when the JSON list the provider returns for a     *)
(* text or objects call holds a record with a confidence outside [0, 1],   *)
(* the request ends in a failure envelope without analysis (in             *)
(* comprehensive mode the kinds already obtained are discarded), and the   *)
(* record is neither dropped nor clamped.                                  *)
C28_OutOfRangeConfidenceFailsRequest == [][ConfidenceStep]_vars

C28_Witness ==
    /\ pc = "done"
    /\ analysis = Some("comprehensive")
    /\ hist.item.calls = 3
    /\ ~output[1].result.success
    /\ output[1].result.analysis = None
    /\ output[1].result.error[1][1] = "1 validation error for DetectedObject"

(* The credential check *)

NoCredentialMessage ==
    <<"No API key available for provider: ", RequestedProvider>>

(* C29: a provider the supported-apis resource reports as no_api_key       *)
(* cannot be used by a tool without a key from the caller: the tool does   *)
(* not go on to load a source, process_image fails with the no-credential  *)
(* error and the batch fails as a whole.                                   *)
C29_UnlistedProviderNeedsCallerKey ==
    (/\ req # None
     /\ RequestedProvider \in APIProviderValues
     /\ RequestedAnalysisIsKnown
     /\ hist.api_info[1][RequestedProvider] = "no_api_key"
     /\ ~Truthy(req[1].api_key)) =>
        /\ pc \in {"resolve", "done"}
        /\ provider = None
        /\ SingleDone =>
              /\ ~output[1].raised
              /\ ~output[1].result.success
              /\ output[1].result.error[1] \in
                    {NoCredentialMessage,
                     <<"Unexpected error: ">> \o NoCredentialMessage}
        /\ BatchDone => (output[1].successful = 0 /\ output[1].failed = N)

(* The custom prompt on the four tools *)

Entry == req[1].entry

Specialized(entry) ==
    /\ req # None
    /\ Entry = entry
    /\ provider # None
    /\ ~Truthy(req[1].prompt)

(* C30: with a non-empty prompt every tool makes only the one custom call  *)
(* per image, whatever the analysis kind, and a success envelope has empty *)
(* text and objects lists, for extract_text and detect_objects too; with   *)
(* no prompt extract_text makes the text call only and detect_objects the  *)
(* objects call only.                                                      *)
C30_PromptOverridesKindOnEveryTool ==
    /\ CustomPrompt =>
          /\ Entry \in {"process_image", "extract_text", "detect_objects",
                         "analyze_image_batch"}
          /\ hist.item.calls <= 1
          /\ plan = << >>
          /\ pc # "analyze"
          /\ pc \in {"attempt", "call_return"} => kind = "custom"
          /\ \A r \in Envelopes :
                r.success =>
                    /\ r.analysis[1].description # None
                    /\ r.analysis[1].objects = << >>
                    /\ r.analysis[1].text = << >>
    /\ Specialized("extract_text") =>
          /\ analysis = Some("text")
          /\ pc \in {"attempt", "call_return"} => kind = "text"
          /\ hist.item.calls <= 1
          /\ \A r \in Envelopes :
                r.success =>
                    /\ r.analysis[1].description = None
                    /\ r.analysis[1].objects = << >>
                    /\ r.analysis[1].text # << >>
    /\ Specialized("detect_objects") =>
          /\ analysis = Some("objects")
          /\ pc \in {"attempt", "call_return"} => kind = "objects"
          /\ hist.item.calls <= 1
          /\ \A r \in Envelopes :
                r.success =>
                    /\ r.analysis[1].description = None
                    /\ r.analysis[1].text = << >>
                    /\ r.analysis[1].objects # << >>

C30_Witness ==
    /\ SingleDone
    /\ Entry = "extract_text"
    /\ Truthy(req[1].prompt)
    /\ analysis = Some("text")
    /\ ~output[1].raised
    /\ output[1].result.success
    /\ output[1].result.analysis[1].text = << >>
    /\ hist.item.calls = 1

====
